---------------------------- MODULE Spec2Model ----------------------------
(***************************************************************************)
(* A model of the Helix shell (hsh): the tokenizer, the parser, the       *)
(* built-in dispatcher and the REPL's processInput (specification Spec),  *)
(* the pipeline orchestrator with its descriptors and children            *)
(* (specification SpecPipe), and job control with the SIGCHLD handler     *)
(* (specification SpecJobs).                                              *)
(*                                                                         *)
(* Strings are sequences of one-character strings: "cd" is <<"c","d">>.   *)
(***************************************************************************)
EXTENDS Integers, Sequences, FiniteSets, TLC

VARIABLES
    \* ---- the REPL's pass over one line (Shell::processInput) ----
    line,               \* the raw input line handed to processInput
    pc,                 \* where processInput is
    trimmed,            \* Shell::processInput: the line without its outer blanks
    pos,                \* Tokenizer::tokenize: size_t i
    tokens,             \* Tokenizer::tokenize: std::vector<Token> tokens
    current,            \* Tokenizer::tokenize: std::string current
    tstate,             \* Tokenizer::tokenize: TokenizerState state
    parsed_cmd,         \* Shell::processInput: ParsedCommand parsed_cmd
    st,                 \* ShellState (cwd, home, last_exit_status, running, ...)
    penv,               \* the process environment (getenv / setenv)
    nforks,             \* children forked while processing the line
    ltable,             \* JobManager::jobs as the REPL's pass sees it
    lnext_job_id,       \* JobManager::next_job_id as the REPL's pass sees it
    \* ---- one call of Executor::execute for a foreground pipeline ----
    nCmds,              \* cmd.pipeline.commands.size()
    in_file,            \* the stages whose Command::input_file is set
    out_file,           \* the stages whose Command::output_file is set
    fdsBefore,          \* the shell's descriptor table when execute was called
    fds,                \* the shell's descriptor table: number -> open description
    pipes,              \* executePipeline: std::vector<std::pair<int,int>> pipes
    ppc,                \* where execute is
    pids,               \* executePipeline: std::vector<pid_t> pids
    wi,                 \* waitForPipeline: size_t i
    child,              \* the children: state, descriptor table, wait status
    exit_status,        \* waitForPipeline: int exit_status
    \* ---- job control: the REPL loop, its children, the SIGCHLD handler ----
    procs,              \* the shell's children: state, wait status, process group
    jobs,               \* JobManager::jobs: job_id -> Job
    next_job_id,        \* JobManager::next_job_id
    spc,                \* where the shell's main flow is
    jit,                \* printAndCleanCompletedJobs: the key the iterator is at
    wpid,               \* the pid the foreground waitpid is called with
    curjob,             \* bringToForeground / addJob: the job being worked on
    wres,               \* bringToForeground: what waitpid returned
    tty_fg,             \* the terminal's foreground process group
    sigchld,            \* SIGCHLD is pending
    subLines,           \* per pid: "[Background job started ...]" lines printed
    doneLines,          \* per pid: "[id] Done/Terminated ..." lines printed for its job
    last_background_pid, \* Executor::last_background_pid
    \* ---- Shell::run over a sequence of lines ----
    rpc,                \* where Shell::run is
    rinput,             \* Shell::run: std::string input, what readInput returned
    script,             \* the lines read so far, each with the state it met
    eof,                \* the line source is at end-of-input
    \* ---- a forked child on its way to exec (Executor::executeCommandInChild) ----
    kpc,                \* where the child is
    kline,              \* the line its Command was parsed from
    kenv,               \* the environment getenv reads
    kfile,              \* what the command name stands for in the file system
    kargs,              \* expanded_args
    kstatus             \* the status the child exited with, -1 while it has not

lineVars == <<line, pc, trimmed, pos, tokens, current, tstate, parsed_cmd, penv,
              nforks, ltable, lnext_job_id>>

pipeVars == <<nCmds, in_file, out_file, fdsBefore, fds, pipes, ppc, pids, wi, child, exit_status>>

jobVars == <<procs, jobs, next_job_id, spc, jit, wpid, curjob, wres, tty_fg, sigchld,
             subLines, doneLines, last_background_pid>>

runVars == <<rpc, rinput, script, eof>>

childVars == <<kpc, kline, kenv, kfile, kargs, kstatus>>

vars == <<lineVars, st, pipeVars, jobVars, runVars, childVars>>

-----------------------------------------------------------------------------
(* Bounds of the model *)

\* An input line is the concatenation of at most MaxItems lexical items.
MaxItems == 4

\* The memory the token vector may take: push_back beyond it throws
\* std::bad_alloc.  No line of MaxItems items needs as many tokens.
MaxTokens == 12

\* The longest pipeline handed to Executor::execute.
MaxStages == 3

\* The children the shell forks in one session of job control.
MaxProcs == 2

\* The most lines one run of the shell reads before its input ends.
MaxLines == 3

-----------------------------------------------------------------------------
(* Strings *)

Min(a, b) == IF a < b THEN a ELSE b

\* std::string::substr(i, n), i counted from 0
Substr(s, i, n) == SubSeq(s, i + 1, Min(Len(s), i + n))

\* The lexical items lines are made of.
Items ==
    { <<"c", "d">>, <<"e", "x", "i", "t">>, <<"a">>, <<" ">>, <<"|">>,
      <<"&">>, <<"2">>, <<">">>, <<"\"">>, <<"'">> }

RECURSIVE LinesOf(_)
LinesOf(k) ==
    IF k = 0 THEN { <<>> }
    ELSE LET shorter == LinesOf(k - 1)
         IN  shorter \cup { l \o it : l \in shorter, it \in Items }

Lines == LinesOf(MaxItems)

\* std::isspace on the characters of the alphabet
IsSpace(c) == c \in {" ", "\t"}

-----------------------------------------------------------------------------
(* Tokenizer (src/src/tokenizer.cpp) *)

Tok(type, value) == [type |-> type, value |-> value]

\* "if (!current.empty()) { tokens.push_back({WORD, current}); current.clear(); }"
Flush(toks, cur) ==
    IF cur # <<>> THEN Append(toks, Tok("WORD", cur)) ELSE toks

\* Tokenizer::handleSpecialTokens: flushes current, then pushes the operator
\* token at i if there is one.  The flush happens whatever it returns.
\* "two" holds two characters, so the test against "2>>" (three) never holds.
handleSpecialTokens(input, i, toks, cur) ==
    LET flushed == Flush(toks, cur)
        two     == Substr(input, i, 2)
        c       == input[i + 1]
        Yes(type, value) == [ok |-> TRUE, tokens |-> Append(flushed, Tok(type, value))]
    IN  IF i + 1 < Len(input) /\ two = <<">", ">">> THEN Yes("REDIRECT_OUT_APPEND", two)
        ELSE IF i + 1 < Len(input) /\ two = <<"2", ">">> THEN Yes("REDIRECT_ERR", two)
        ELSE IF i + 1 < Len(input) /\ two = <<"2", ">", ">">>
        THEN Yes("REDIRECT_ERR_APPEND", <<"2", ">", ">">>)
        ELSE IF c = "|" THEN Yes("PIPE", <<c>>)
        ELSE IF c = "<" THEN Yes("REDIRECT_IN", <<c>>)
        ELSE IF c = ">" THEN Yes("REDIRECT_OUT", <<c>>)
        ELSE IF c = "&" THEN Yes("BACKGROUND", <<c>>)
        ELSE IF c = ";" THEN Yes("SEMICOLON", <<c>>)
        ELSE [ok |-> FALSE, tokens |-> flushed]

\* Tokenizer::getTokenLength
getTokenLength(input, i) ==
    LET c     == input[i + 1]
        three == Substr(input, i, 3)
        two   == Substr(input, i, 2)
    IN  IF c = "2"
        THEN IF i + 2 < Len(input) /\ three = <<"2", ">", ">">> THEN 3
             ELSE IF i + 2 < Len(input) /\ three = <<"2", ">">> THEN 2
             ELSE 0
        ELSE IF i + 1 < Len(input) /\ two = <<">", ">">> THEN 2
        ELSE 1

\* The result of one pass of the loop: how far i moves and what it leaves.
Step(adv, toks, cur, state) ==
    [adv |-> adv, tokens |-> toks, current |-> cur, state |-> state]

\* Tokenizer::processNormalState
processNormalState(input, i, toks, cur) ==
    LET c == input[i + 1]
    IN  IF IsSpace(c) THEN Step(1, Flush(toks, cur), <<>>, "NORMAL")
        ELSE IF c = "\"" THEN Step(1, Flush(toks, cur), <<>>, "IN_DOUBLE_QUOTE")
        ELSE IF c = "'" THEN Step(1, Flush(toks, cur), <<>>, "IN_SINGLE_QUOTE")
        ELSE IF c = "\\"
        THEN IF i + 1 < Len(input)
             THEN Step(2, toks, Append(cur, input[i + 2]), "NORMAL")
             ELSE Step(1, toks, cur, "NORMAL")
        ELSE IF c \in {"|", "<", ">", "&", ";", "2"}
        THEN LET h == handleSpecialTokens(input, i, toks, cur)
             IN  IF h.ok
                 THEN Step(getTokenLength(input, i), h.tokens, <<>>, "NORMAL")
                 \* current was flushed by handleSpecialTokens all the same
                 ELSE Step(1, h.tokens, <<c>>, "NORMAL")
        ELSE Step(1, toks, Append(cur, c), "NORMAL")

\* Tokenizer::processDoubleQuoteState
processDoubleQuoteState(input, i, toks, cur) ==
    LET c == input[i + 1]
    IN  IF c = "\"" THEN Step(1, toks, cur, "NORMAL")
        ELSE IF c = "\\" /\ i + 1 < Len(input) /\ input[i + 2] \in {"\"", "\\", "$"}
        THEN Step(2, toks, Append(cur, input[i + 2]), "IN_DOUBLE_QUOTE")
        ELSE Step(1, toks, Append(cur, c), "IN_DOUBLE_QUOTE")

\* Tokenizer::processSingleQuoteState
processSingleQuoteState(input, i, toks, cur) ==
    IF input[i + 1] = "'" THEN Step(1, toks, cur, "NORMAL")
    ELSE Step(1, toks, Append(cur, input[i + 1]), "IN_SINGLE_QUOTE")

\* The body of tokenize's while loop: the switch on the state.
LoopBody(input, i, toks, cur, state) ==
    IF state = "NORMAL" THEN processNormalState(input, i, toks, cur)
    ELSE IF state = "IN_DOUBLE_QUOTE" THEN processDoubleQuoteState(input, i, toks, cur)
    ELSE processSingleQuoteState(input, i, toks, cur)

-----------------------------------------------------------------------------
(* Parser (src/unnamed/part_002, lines 215-355) *)

\* struct Command (src/include/types.h)
EmptyCommand ==
    [args |-> <<>>, input_file |-> <<>>, output_file |-> <<>>, append_mode |-> FALSE,
     error_file |-> <<>>, error_append_mode |-> FALSE]

IsRedirect(type) ==
    type \in {"REDIRECT_IN", "REDIRECT_OUT", "REDIRECT_OUT_APPEND", "REDIRECT_ERR",
              "REDIRECT_ERR_APPEND"}

\* Parser::parseArguments: the WORD tokens from p on; p counts from 0.
RECURSIVE parseArguments(_, _, _)
parseArguments(p, toks, cmd) ==
    IF p < Len(toks) /\ toks[p + 1].type = "WORD"
    THEN parseArguments(p + 1, toks, [cmd EXCEPT !.args = Append(@, toks[p + 1].value)])
    ELSE [pos |-> p, cmd |-> cmd, diag |-> FALSE]

\* One redirection "op WORD" stored into its field.
StoreRedirect(cmd, type, file) ==
    IF type = "REDIRECT_IN" THEN [cmd EXCEPT !.input_file = file]
    ELSE IF type = "REDIRECT_OUT"
    THEN [cmd EXCEPT !.output_file = file, !.append_mode = FALSE]
    ELSE IF type = "REDIRECT_OUT_APPEND"
    THEN [cmd EXCEPT !.output_file = file, !.append_mode = TRUE]
    ELSE IF type = "REDIRECT_ERR"
    THEN [cmd EXCEPT !.error_file = file, !.error_append_mode = FALSE]
    ELSE [cmd EXCEPT !.error_file = file, !.error_append_mode = TRUE]

\* Parser::parseRedirections: diag says "expected filename" was printed; the
\* operator has been skipped by then.
RECURSIVE parseRedirections(_, _, _)
parseRedirections(p, toks, cmd) ==
    IF p < Len(toks) /\ IsRedirect(toks[p + 1].type)
    THEN IF p + 1 < Len(toks) /\ toks[p + 2].type = "WORD"
         THEN parseRedirections(p + 2, toks,
                                StoreRedirect(cmd, toks[p + 1].type, toks[p + 2].value))
         ELSE [pos |-> p + 1, cmd |-> cmd, diag |-> TRUE]
    ELSE [pos |-> p, cmd |-> cmd, diag |-> FALSE]

\* Parser::parseSingleCommand
parseSingleCommand(p, toks) ==
    LET a == parseArguments(p, toks, EmptyCommand)
    IN  parseRedirections(a.pos, toks, a.cmd)

\* The while loop of Parser::parse
RECURSIVE parsePipeline(_, _, _, _)
parsePipeline(p, toks, cmds, diag) ==
    IF p < Len(toks) /\ toks[p + 1].type # "END_OF_INPUT"
    THEN LET r == parseSingleCommand(p, toks)
         IN  IF r.pos < Len(toks) /\ toks[r.pos + 1].type = "PIPE"
             THEN parsePipeline(r.pos + 1, toks, Append(cmds, r.cmd), diag \/ r.diag)
             ELSE [pos |-> r.pos, commands |-> Append(cmds, r.cmd), diag |-> diag \/ r.diag]
    ELSE [pos |-> p, commands |-> cmds, diag |-> diag]

\* Parser::parse.  It only prints its errors (diag): a ParsedCommand is
\* returned in every case.
parse(toks) ==
    LET pl  == parsePipeline(0, toks, <<>>, FALSE)
        bg  == pl.pos < Len(toks) /\ toks[pl.pos + 1].type = "BACKGROUND"
        fin == IF bg THEN pl.pos + 1 ELSE pl.pos
    IN  [commands   |-> pl.commands,
         background |-> bg,
         diag       |-> pl.diag \/ fin >= Len(toks) \/ toks[fin + 1].type # "END_OF_INPUT"]

-----------------------------------------------------------------------------
(* The shell's state and its built-ins (src/unnamed/part_002, lines 357-572) *)

Home == <<"h">>
WorkDir == <<"w">>

\* The directories chdir can enter.  Paths are taken as they are written:
\* the model has one flat name space of directories.
Dirs == { Home, WorkDir, <<"a">> }

\* The names BuiltinCommandDispatcher's constructor registers.
BuiltinNames ==
    { <<"c", "d">>, <<"e", "x", "i", "t">>, <<"h", "i", "s", "t", "o", "r", "y">>,
      <<"j", "o", "b", "s">>, <<"f", "g">>, <<"b", "g">>, <<"p", "w", "d">>,
      <<"e", "x", "p", "o", "r", "t">> }

Digit(c) ==
    CASE c = "0" -> 0 [] c = "1" -> 1 [] c = "2" -> 2 [] c = "3" -> 3 [] c = "4" -> 4
      [] c = "5" -> 5 [] c = "6" -> 6 [] c = "7" -> 7 [] c = "8" -> 8 [] c = "9" -> 9
      [] OTHER -> -1

\* std::stoi on a string without sign or leading space: the value of the
\* leading digits, or -1 for "throws std::invalid_argument".
RECURSIVE StoiFrom(_, _, _)
StoiFrom(s, k, acc) ==
    IF k <= Len(s) /\ Digit(s[k]) >= 0 THEN StoiFrom(s, k + 1, acc * 10 + Digit(s[k]))
    ELSE acc

Stoi(s) == IF s # <<>> /\ Digit(s[1]) >= 0 THEN StoiFrom(s, 1, 0) ELSE -1

\* What a handler leaves: the state, the process environment, and its return value.
Handled(state, env, ret) == [st |-> state, penv |-> env, handled |-> ret, thrown |-> FALSE]

\* A handler left by an exception it does not catch.
Throws(state, env) == [st |-> state, penv |-> env, handled |-> FALSE, thrown |-> TRUE]

\* A cd that leaves OLDPWD as it was.
CdHandleOldpwdKept(cmd, state, env) ==
    LET args    == cmd.commands[1].args
        dash    == Len(args) > 1 /\ args[2] = <<"-">>
        new_dir == IF Len(args) > 1
                   THEN IF dash THEN env.OLDPWD ELSE args[2]
                   ELSE state.home_directory
    IN  IF (dash /\ env.OLDPWD = <<>>) \/ new_dir \notin Dirs
        THEN Handled(state, env, TRUE)
        ELSE Handled([state EXCEPT !.current_directory = new_dir],
                     [env EXCEPT !.PWD = new_dir], TRUE)

\* A cd that goes on to set OLDPWD and PWD after chdir has failed.
CdHandleProceeds(cmd, state, env) ==
    LET args    == cmd.commands[1].args
        dash    == Len(args) > 1 /\ args[2] = <<"-">>
        new_dir == IF Len(args) > 1
                   THEN IF dash THEN env.OLDPWD ELSE args[2]
                   ELSE state.home_directory
    IN  IF dash /\ env.OLDPWD = <<>>
        THEN Handled(state, env, TRUE)
        ELSE IF new_dir \notin Dirs
        THEN Handled(state, [env EXCEPT !.OLDPWD = state.current_directory], TRUE)
        ELSE Handled([state EXCEPT !.current_directory = new_dir],
                     [env EXCEPT !.OLDPWD = state.current_directory, !.PWD = new_dir],
                     TRUE)

\* CdCommandHandler::handle
CdHandle(cmd, state, env) ==
    LET args    == cmd.commands[1].args
        dash    == Len(args) > 1 /\ args[2] = <<"-">>
        new_dir == IF Len(args) > 1
                   THEN IF dash THEN env.OLDPWD ELSE args[2]
                   ELSE state.home_directory
    IN  IF dash /\ env.OLDPWD = <<>>
        THEN Handled(state, env, TRUE)                          \* "cd: OLDPWD not set"
        ELSE IF new_dir \notin Dirs
        THEN Handled(state, env, TRUE)                          \* chdir fails
        ELSE Handled([state EXCEPT !.current_directory = new_dir],
                     [env EXCEPT !.OLDPWD = state.current_directory, !.PWD = new_dir],
                     TRUE)

\* ExitCommandHandler::handle
ExitHandle(cmd, state, env) ==
    LET args == cmd.commands[1].args
    IN  IF Len(args) > 1 /\ Stoi(args[2]) < 0
        THEN Handled([state EXCEPT !.last_exit_status = 0], env, TRUE)
        ELSE Handled([state EXCEPT !.last_exit_status =
                                       IF Len(args) > 1 THEN Stoi(args[2]) ELSE 0,
                                   !.running = FALSE],
                     env, FALSE)

\* HistoryCommandHandler, JobsCommandHandler and PwdCommandHandler print and
\* return true.
PrintHandle(cmd, state, env) == Handled(state, env, TRUE)

\* FgCommandHandler::handle as the shell's state sees it: without a job id a
\* message is printed; with one, std::stoi reads it outside any try block,
\* and the work is the job manager's (FgCommand below).
FgHandle(cmd, state, env) ==
    LET args == cmd.commands[1].args
    IN  IF Len(args) < 2 THEN Handled(state, env, TRUE)
        ELSE IF Stoi(args[2]) < 0 THEN Throws(state, env)
        ELSE Handled(state, env, TRUE)

\* BgCommandHandler::handle, in the same way (BgCommand below).
BgHandle(cmd, state, env) ==
    LET job_id == IF Len(cmd.commands[1].args) < 2 THEN 0
                  ELSE Stoi(cmd.commands[1].args[2])
    IN  IF job_id < 0 THEN Throws(state, env) ELSE Handled(state, env, TRUE)

\* std::string::find('='), as a position from 1; 0 for npos.
RECURSIVE FindEq(_, _)
FindEq(s, k) ==
    IF k > Len(s) THEN 0 ELSE IF s[k] = "=" THEN k ELSE FindEq(s, k + 1)

\* ExportCommandHandler::handle without an argument: the lines it prints.
ExportPrints(state) ==
    { <<"e", "x", "p", "o", "r", "t", " ">> \o n \o <<"=">> \o state.environment[n] :
          n \in DOMAIN state.environment }

\* ExportCommandHandler::handle
ExportHandle(cmd, state, env) ==
    LET args   == cmd.commands[1].args
        eq_pos == FindEq(args[2], 1)
    IN  IF Len(args) < 2 THEN Handled(state, env, TRUE)          \* lists the variables
        ELSE IF eq_pos = 0 THEN Handled(state, env, TRUE)        \* "export: invalid format"
        ELSE LET var_name  == SubSeq(args[2], 1, eq_pos - 1)
                 var_value == SubSeq(args[2], eq_pos + 1, Len(args[2]))
             IN  Handled([state EXCEPT !.environment = (var_name :> var_value) @@ @],
                         [env EXCEPT !.exported = (var_name :> var_value) @@ @],
                         TRUE)

\* BuiltinCommandDispatcher::dispatch: the handler is looked up by the first
\* stage's name alone.
dispatch(cmd, state, env) ==
    IF cmd.commands = <<>> \/ cmd.commands[1].args = <<>>
    THEN Handled(state, env, FALSE)
    ELSE LET command == cmd.commands[1].args[1]
         IN  IF command = <<"c", "d">> THEN CdHandle(cmd, state, env)
             ELSE IF command = <<"e", "x", "i", "t">> THEN ExitHandle(cmd, state, env)
             ELSE IF command = <<"f", "g">> THEN FgHandle(cmd, state, env)
             ELSE IF command = <<"b", "g">> THEN BgHandle(cmd, state, env)
             ELSE IF command = <<"e", "x", "p", "o", "r", "t">>
             THEN ExportHandle(cmd, state, env)
             ELSE IF command \in BuiltinNames THEN PrintHandle(cmd, state, env)
             ELSE Handled(state, env, FALSE)

-----------------------------------------------------------------------------
(* The REPL's pass over one line (Shell::processInput, src/unnamed/part_007) *)

\* find_first_not_of(" \t") / find_last_not_of(" \t"), as positions from 1;
\* 0 when every character is a blank.
RECURSIVE FirstNonBlank(_, _)
FirstNonBlank(s, k) ==
    IF k > Len(s) THEN 0
    ELSE IF s[k] \notin {" ", "\t"} THEN k ELSE FirstNonBlank(s, k + 1)

RECURSIVE LastNonBlank(_, _)
LastNonBlank(s, k) ==
    IF k < 1 THEN 0
    ELSE IF s[k] \notin {" ", "\t"} THEN k ELSE LastNonBlank(s, k - 1)

Trim(s) == SubSeq(s, FirstNonBlank(s, 1), LastNonBlank(s, Len(s)))

\* The statuses a waited-for child may hand back to the REPL's pass.
ChildStatuses == {0, 1, 127}

NoParse == [commands |-> <<>>, background |-> FALSE, diag |-> FALSE]

InitState ==
    [current_directory |-> WorkDir, home_directory |-> Home, last_exit_status |-> 0,
     running |-> TRUE, command_history |-> <<>>, environment |-> <<>>]

InitLine ==
    /\ line \in Lines
    /\ pc = "read"
    /\ trimmed = <<>>
    /\ pos = 0
    /\ tokens = <<>>
    /\ current = <<>>
    /\ tstate = "NORMAL"
    /\ parsed_cmd = NoParse
    /\ st = InitState
    /\ penv = [OLDPWD |-> <<>>, PWD |-> WorkDir, exported |-> <<>>]
    /\ nforks = 0
    /\ ltable = <<>>
    /\ lnext_job_id = 1

\* processInput, lines 582-596: empty and blank lines return at once.
ReadLine ==
    /\ pc = "read"
    /\ IF line = <<>>
       THEN pc' = "done" /\ UNCHANGED <<st, trimmed>>
       ELSE /\ st' = [st EXCEPT !.command_history = Append(@, line)]
            /\ IF FirstNonBlank(line, 1) = 0
               THEN pc' = "done" /\ UNCHANGED trimmed
               ELSE pc' = "tokenize" /\ trimmed' = Trim(line)
    /\ UNCHANGED <<line, pos, tokens, current, tstate, parsed_cmd, penv, nforks,
                   ltable, lnext_job_id>>
    /\ UNCHANGED <<pipeVars, jobVars, runVars, childVars>>

\* One pass of tokenize's while loop.  A token vector beyond MaxTokens is
\* std::bad_alloc, which main catches as a fatal error.
TokStep ==
    /\ pc = "tokenize"
    /\ pos < Len(trimmed)
    /\ LET r == LoopBody(trimmed, pos, tokens, current, tstate)
       IN  IF Len(r.tokens) > MaxTokens
           THEN pc' = "fatal" /\ UNCHANGED <<pos, tokens, current, tstate>>
           ELSE /\ pos' = pos + r.adv
                /\ tokens' = r.tokens
                /\ current' = r.current
                /\ tstate' = r.state
                /\ pc' = "tokenize"
    /\ UNCHANGED <<line, trimmed, parsed_cmd, st, penv, nforks, ltable, lnext_job_id>>
    /\ UNCHANGED <<pipeVars, jobVars, runVars, childVars>>

\* tokenize, lines 30-38: the last flush and the END marker.
TokFinish ==
    /\ pc = "tokenize"
    /\ pos >= Len(trimmed)
    /\ tokens' = Append(Flush(tokens, current), Tok("END_OF_INPUT", <<>>))
    /\ pc' = "parse"
    /\ UNCHANGED <<line, trimmed, pos, current, tstate, parsed_cmd, st, penv, nforks,
                   ltable, lnext_job_id>>
    /\ UNCHANGED <<pipeVars, jobVars, runVars, childVars>>

\* processInput, line 602
Parse ==
    /\ pc = "parse"
    /\ parsed_cmd' = parse(tokens)
    /\ pc' = "dispatch"
    /\ UNCHANGED <<line, trimmed, pos, tokens, current, tstate, st, penv, nforks,
                   ltable, lnext_job_id>>
    /\ UNCHANGED <<pipeVars, jobVars, runVars, childVars>>

\* processInput, lines 605-615
Dispatch ==
    /\ pc = "dispatch"
    /\ LET d == dispatch(parsed_cmd, st, penv)
       IN  /\ st' = d.st
           /\ penv' = d.penv
           /\ pc' = IF ~d.st.running THEN "exited"
                    ELSE IF d.handled THEN "done" ELSE "execute"
    /\ UNCHANGED <<line, trimmed, pos, tokens, current, tstate, parsed_cmd, nforks,
                   ltable, lnext_job_id>>
    /\ UNCHANGED <<pipeVars, jobVars, runVars, childVars>>

\* JobManager::addJob
addJob(table, id, pid, command) ==
    table @@ (id :> [job_id |-> id, pgid |-> pid, command |-> command,
                     status |-> "RUNNING"])

\* Executor::execute as processInput sees it: how many children were forked,
\* the status returned, and the background pid left behind.
\* A stage that cannot be forked ends the call with -1.
ExecuteOutcomes(cmd) ==
    LET n == Len(cmd.commands)
        Out(f, s, bg) == [forked |-> f, status |-> s, bg_pid |-> bg]
    IN  IF n = 0 THEN { Out(0, 0, 0) }
        ELSE IF n = 1
        THEN IF cmd.commands[1].args = <<>> \/ cmd.commands[1].args[1] \in BuiltinNames
             THEN { Out(0, -1, 0) }
             ELSE IF cmd.background
             THEN { Out(0, -1, 0), Out(1, 0, 100) }
             ELSE { Out(0, -1, 0) } \cup { Out(1, s, 0) : s \in ChildStatuses }
        ELSE IF cmd.background THEN { Out(0, -1, 0) }
        ELSE { Out(f, -1, 0) : f \in 0 .. (n - 1) }
                 \cup { Out(n, s, 0) : s \in ChildStatuses }

\* processInput, lines 618-626
Execute ==
    /\ pc = "execute"
    /\ \E o \in ExecuteOutcomes(parsed_cmd) :
          /\ st' = [st EXCEPT !.last_exit_status = o.status]
          /\ nforks' = nforks + o.forked
          /\ IF o.bg_pid > 0
             THEN /\ ltable' = addJob(ltable, lnext_job_id, o.bg_pid, line)
                  /\ lnext_job_id' = lnext_job_id + 1
             ELSE UNCHANGED <<ltable, lnext_job_id>>
    /\ pc' = "done"
    /\ UNCHANGED <<line, trimmed, pos, tokens, current, tstate, parsed_cmd, penv>>
    /\ UNCHANGED <<pipeVars, jobVars, runVars, childVars>>


-----------------------------------------------------------------------------
(* Descriptors, pipes and children of one foreground pipeline               *)
(* (Executor::execute, src/unnamed/part_006; PipelineManager,               *)
(* src/src/executor/pipeline_manager.cpp)                                   *)

\* An open file description: one end of pipe k (1 .. nCmds-1), or something
\* that was open before the call (pipe 0, end "pre").
PipeEnd(k, e) == [pipe |-> k, end |-> e]
Pre == PipeEnd(0, "pre")

\* Descriptor numbers run from 0 to FdLimit - 1 (RLIMIT_NOFILE).  With one
\* more descriptor open than stdin, stdout and stderr, the last pipe of the
\* longest pipeline does not fit.
FdLimit == 2 * MaxStages + 1

FreeFds(f) == (0 .. (FdLimit - 1)) \ DOMAIN f

\* The lowest free number, as open(2) and pipe(2) hand out.
LowestFree(f) == CHOOSE n \in FreeFds(f) : \A m \in FreeFds(f) : n <= m

\* close(fd): EBADF on a number that is not open changes nothing.
Close(f, fd) == [x \in DOMAIN f \ {fd} |-> f[x]]

\* dup2(oldfd, newfd) with oldfd open
Dup2(f, oldfd, newfd) == [x \in DOMAIN f \cup {newfd} |-> IF x = newfd THEN f[oldfd] ELSE f[x]]

\* pipe(fds): both ends take the two lowest free numbers.
OpenPipe(f, k) ==
    LET r  == LowestFree(f)
        f1 == f @@ (r :> PipeEnd(k, "r"))
        w  == LowestFree(f1)
    IN  [fds |-> f1 @@ (w :> PipeEnd(k, "w")), pair |-> <<r, w>>]

\* PipelineManager::cleanupPipes, and the same loop in createPipes' failure
\* path: close(first), close(second) for every pair.
RECURSIVE cleanupPipesReadEndsOnly(_, _)
cleanupPipesReadEndsOnly(f, ps) ==
    IF ps = <<>> THEN f
    ELSE cleanupPipesReadEndsOnly(Close(f, Head(ps)[1]), Tail(ps))

RECURSIVE cleanupPipes(_, _)
cleanupPipes(f, ps) ==
    IF ps = <<>> THEN f
    ELSE cleanupPipes(Close(Close(f, Head(ps)[1]), Head(ps)[2]), Tail(ps))

\* A child's wait status: exit(code), or death by signal code.
Exited(code) == [kind |-> "exit", code |-> code]
Signaled(sig) == [kind |-> "signal", code |-> sig]
NoStatus == [kind |-> "none", code |-> 0]

\* The codes a stage exits with, and the signals that kill one.
ExitCodes == {0, 1}
KillSignals == {9}

\* "WIFEXITED ? WEXITSTATUS : 128 + WTERMSIG"
StatusValue(ws) == IF ws.kind = "exit" THEN ws.code ELSE 128 + ws.code

NoChild == [st |-> "none", fds |-> <<>>, status |-> NoStatus]

\* A process holds the write end of pipe k.
HoldsWriteEnd(f, k) == \E x \in DOMAIN f : f[x] = PipeEnd(k, "w")

Live(c) == c.st \in {"forked", "ready"}

\* A reader of pipe k sees end-of-file: no process has its write end open.
EofOn(k) ==
    /\ ~HoldsWriteEnd(fds, k)
    /\ \A j \in DOMAIN child : Live(child[j]) => ~HoldsWriteEnd(child[j].fds, k)

InitPipe ==
    /\ nCmds \in 1 .. MaxStages
    /\ in_file \in SUBSET (1 .. nCmds)
    /\ out_file \in SUBSET (1 .. nCmds)
    /\ Cardinality(in_file \cup out_file) <= 1
    /\ fdsBefore \in { [x \in {0, 1, 2} |-> Pre], [x \in {0, 1, 2, 4} |-> Pre] }
    /\ fds = fdsBefore
    /\ pipes = <<>>
    /\ ppc = "execute"
    /\ pids = <<>>
    /\ wi = 0
    /\ child = [j \in 1 .. MaxStages |-> NoChild]
    /\ exit_status = -1

\* execute returns ret: processInput stores it in last_exit_status.
Return(ret) ==
    /\ ppc' = "returned"
    /\ st' = [st EXCEPT !.last_exit_status = ret]

\* Executor::execute, lines 37-71: one command goes to executeSingleCommand,
\* more to PipelineManager::executePipeline.
ExecuteStart ==
    /\ ppc = "execute"
    /\ ppc' = IF nCmds = 1 THEN "fork" ELSE "createPipes"
    /\ UNCHANGED <<st, nCmds, in_file, out_file, fdsBefore, fds, pipes, pids, wi, child, exit_status>>
    /\ UNCHANGED <<lineVars, jobVars, runVars, childVars>>

\* PipelineManager::createPipes: one pass of its loop.  pipe() fails when
\* fewer than two numbers are free, and may fail whenever the system says so;
\* the pipes made so far are closed and executePipeline returns -1.
CreatePipe ==
    /\ ppc = "createPipes"
    /\ Len(pipes) < nCmds - 1
    /\ \E ok \in BOOLEAN :
          IF ok /\ Cardinality(FreeFds(fds)) >= 2
          THEN LET p == OpenPipe(fds, Len(pipes) + 1)
               IN  /\ fds' = p.fds
                   /\ pipes' = Append(pipes, p.pair)
                   /\ UNCHANGED <<ppc, st>>
          ELSE /\ fds' = cleanupPipes(fds, pipes)
               /\ pipes' = <<>>
               /\ Return(-1)
    /\ UNCHANGED <<nCmds, in_file, out_file, fdsBefore, pids, wi, child, exit_status>>
    /\ UNCHANGED <<lineVars, jobVars, runVars, childVars>>

CreatePipesDone ==
    /\ ppc = "createPipes"
    /\ Len(pipes) = nCmds - 1
    /\ ppc' = "fork"
    /\ UNCHANGED <<st, nCmds, in_file, out_file, fdsBefore, fds, pipes, pids, wi, child, exit_status>>
    /\ UNCHANGED <<lineVars, jobVars, runVars, childVars>>

\* A parent that closes nothing after a fork.
CloseAfterForkNothing(f, i) == f

\* What the parent closes right after forking stage i (counted from 0):
\* both ends of pipe i-1.
CloseAfterFork(f, i) ==
    IF i > 0 THEN Close(Close(f, pipes[i][1]), pipes[i][2]) ELSE f

\* executePipeline, lines 33-79 (executeSingleCommand, lines 90-94, for one
\* command): fork stage i.  The child starts with a copy of the parent's table.
Fork ==
    /\ ppc = "fork"
    /\ Len(pids) < nCmds
    /\ LET i == Len(pids)
       IN  \E ok \in BOOLEAN :
              IF ok
              THEN /\ child' = [child EXCEPT ![i + 1] =
                                   [st |-> "forked", fds |-> fds, status |-> NoStatus]]
                   /\ pids' = Append(pids, i + 1)
                   /\ fds' = CloseAfterFork(fds, i)
                   /\ UNCHANGED <<ppc, st>>
              ELSE /\ fds' = cleanupPipes(fds, pipes)
                   /\ Return(-1)
                   /\ UNCHANGED <<child, pids>>
    /\ UNCHANGED <<nCmds, in_file, out_file, fdsBefore, pipes, wi, exit_status>>
    /\ UNCHANGED <<lineVars, jobVars, runVars, childVars>>

\* executePipeline, lines 81-85: every stage is forked.
ForkDone ==
    /\ ppc = "fork"
    /\ Len(pids) = nCmds
    /\ fds' = cleanupPipes(fds, pipes)
    /\ ppc' = "wait"
    /\ UNCHANGED <<st, nCmds, in_file, out_file, fdsBefore, pipes, pids, wi, child, exit_status>>
    /\ UNCHANGED <<lineVars, jobVars, runVars, childVars>>

\* waitpid(pids[wi]) collects the zombie; the last stage's status is kept
\* (waitForPipeline, lines 127-134; executeSingleCommand, lines 139-147).
Collect ==
    LET p == pids[wi + 1]
    IN  /\ child' = [child EXCEPT ![p].st = "reaped"]
        /\ exit_status' = IF wi + 1 = Len(pids) THEN StatusValue(child[p].status)
                          ELSE exit_status
        /\ wi' = wi + 1
        /\ ppc' = "wait"

\* waitForPipeline, lines 119-125 (executeSingleCommand, lines 130-137):
\* the call of waitpid(pids[wi], &status, 0).  It collects a zombie, sleeps on
\* a live child, and fails with ECHILD on a child that is already collected:
\* the pipeline's loop goes on, the single command returns -1.
WaitCall ==
    /\ ppc = "wait"
    /\ wi < Len(pids)
    /\ LET c == child[pids[wi + 1]]
       IN  IF c.st = "zombie" THEN Collect /\ UNCHANGED st
           ELSE IF c.st = "reaped"
           THEN IF nCmds = 1
                THEN Return(-1) /\ UNCHANGED <<child, exit_status, wi>>
                ELSE wi' = wi + 1 /\ UNCHANGED <<child, exit_status, ppc, st>>
           ELSE ppc' = "blocked" /\ UNCHANGED <<child, exit_status, wi, st>>
    /\ UNCHANGED <<nCmds, in_file, out_file, fdsBefore, fds, pipes, pids>>
    /\ UNCHANGED <<lineVars, jobVars, runVars, childVars>>

\* The sleeping waitpid wakes when its child has changed state.
WaitWake ==
    /\ ppc = "blocked"
    /\ child[pids[wi + 1]].st = "zombie"
    /\ Collect
    /\ UNCHANGED <<st, nCmds, in_file, out_file, fdsBefore, fds, pipes, pids>>
    /\ UNCHANGED <<lineVars, jobVars, runVars, childVars>>

\* waitForPipeline, line 137 (executeSingleCommand, lines 149-155)
WaitDone ==
    /\ ppc = "wait"
    /\ wi = Len(pids)
    /\ Return(exit_status)
    /\ UNCHANGED <<nCmds, in_file, out_file, fdsBefore, fds, pipes, pids, wi, child, exit_status>>
    /\ UNCHANGED <<lineVars, jobVars, runVars, childVars>>

\* The files "< file" and "> file" open.
FileIn == PipeEnd(0, "file_in")
FileOut == PipeEnd(0, "file_out")

\* FileDescriptorManager::setupInputRedirection / setupOutputRedirection:
\* open the file, dup2 it onto the stream, close the descriptor open gave.
Redirect(f, file, stream) ==
    LET fd == LowestFree(f)
    IN  Close(Dup2(f @@ (fd :> file), fd, stream), fd)

\* FileDescriptorManager::setupRedirections for stage i, called by the
\* executor function after the pipes are in place (Executor::execute, lines
\* 59-64; executeSingleCommand, lines 96-100).
setupRedirectionsLeftOut(f, i) == f

setupRedirections(f, i) ==
    LET f1 == IF i \in in_file THEN Redirect(f, FileIn, 0) ELSE f
    IN  IF i \in out_file THEN Redirect(f1, FileOut, 1) ELSE f1

\* The child's side of executePipeline, lines 43-66: stage i (counted from 1)
\* reads pipe i-1 and writes pipe i, then closes every pipe descriptor;
\* executeCommandInChild closes whatever else is above stderr.
ChildKeepsItsPipes(f, i) ==
    LET f1 == IF i > 1 THEN Dup2(f, pipes[i - 1][1], 0) ELSE f
    IN  IF i < nCmds THEN Dup2(f1, pipes[i][2], 1) ELSE f1

ChildFds(f, i) ==
    LET f1 == IF i > 1 THEN Dup2(f, pipes[i - 1][1], 0) ELSE f
        f2 == IF i < nCmds THEN Dup2(f1, pipes[i][2], 1) ELSE f1
        f3 == cleanupPipes(f2, pipes)
        f4 == setupRedirections(f3, i)
    IN  [x \in DOMAIN f4 \cap {0, 1, 2} |-> f4[x]]

\* A file that cannot be opened ends the child with exit(1).
ChildSetup(i) ==
    /\ child[i].st = "forked"
    /\ \E opened \in BOOLEAN :
          IF opened \/ i \notin in_file \cup out_file
          THEN child' = [child EXCEPT ![i].st = "ready",
                                      ![i].fds = ChildFds(child[i].fds, i)]
          ELSE child' = [child EXCEPT ![i] = [st |-> "zombie", fds |-> <<>>,
                                              status |-> Exited(1)]]
    /\ UNCHANGED <<st, nCmds, in_file, out_file, fdsBefore, fds, pipes, ppc, pids, wi, exit_status>>
    /\ UNCHANGED <<lineVars, jobVars, runVars, childVars>>

\* The program of stage i runs until its input is at end-of-file, then exits.
\* A stage that reads the terminal or a file ends when it has written its
\* output.
ChildExit(i) ==
    /\ child[i].st = "ready"
    /\ child[i].fds[0].end = "r" => EofOn(child[i].fds[0].pipe)
    /\ \E code \in ExitCodes :
          child' = [child EXCEPT ![i] = [st |-> "zombie", fds |-> <<>>,
                                         status |-> Exited(code)]]
    /\ UNCHANGED <<st, nCmds, in_file, out_file, fdsBefore, fds, pipes, ppc, pids, wi, exit_status>>
    /\ UNCHANGED <<lineVars, jobVars, runVars, childVars>>

\* A signal kills stage i at any moment of its life.
ChildKilled(i) ==
    /\ Live(child[i])
    /\ \E sig \in KillSignals :
          child' = [child EXCEPT ![i] = [st |-> "zombie", fds |-> <<>>,
                                         status |-> Signaled(sig)]]
    /\ UNCHANGED <<st, nCmds, in_file, out_file, fdsBefore, fds, pipes, ppc, pids, wi, exit_status>>
    /\ UNCHANGED <<lineVars, jobVars, runVars, childVars>>

\* sigchld_handler (src/unnamed/part_007, lines 452-462), installed by
\* Shell::Shell: waitpid(-1, WNOHANG | WUNTRACED) until nothing is left.  It
\* runs between any two instructions of the shell.  A child the shell is
\* already sleeping on goes to the sleeper.  updateJobStatus finds no job for a
\* foreground child.
Zombies == { j \in DOMAIN child : child[j].st = "zombie" }

SleptOn == IF ppc = "blocked" THEN {pids[wi + 1]} ELSE {}

sigchld_handler ==
    /\ Zombies \ SleptOn # {}
    /\ child' = [j \in DOMAIN child |->
                    IF j \in Zombies \ SleptOn THEN [child[j] EXCEPT !.st = "reaped"]
                    ELSE child[j]]
    /\ UNCHANGED <<st, nCmds, in_file, out_file, fdsBefore, fds, pipes, ppc, pids, wi, exit_status>>
    /\ UNCHANGED <<lineVars, jobVars, runVars, childVars>>

-----------------------------------------------------------------------------
(* Job control: Shell::run, Executor::executeSingleCommand, JobManager and   *)
(* the SIGCHLD handler                                                       *)

Pids == 1 .. MaxProcs

\* The job numbers typed after fg and bg.
JobIds == 1 .. MaxProcs

\* getpgrp() of the shell; a child that is not moved stays in this group.
ShellPgid == 0

NoProc == [st |-> "none", status |-> NoStatus, pgid |-> ShellPgid, stopSeen |-> FALSE]

MinOf(S) == CHOOSE n \in S : \A m \in S : n <= m

Unreaped(p) == procs[p].st \in {"running", "stopped", "zombie"}

\* tcsetpgrp and kill(-g, sig) need a process in group g.
GroupExists(g) == \E p \in Pids : Unreaped(p) /\ procs[p].pgid = g

FreePids == { p \in Pids : procs[p].st = "none" }

\* "WIFEXITED(status) ? JobStatus::DONE : JobStatus::TERMINATED"
JobStatusOf(ws) == IF ws.kind = "exit" THEN "DONE" ELSE "TERMINATED"

Finished(job) == job.status \in {"DONE", "TERMINATED"}

Erase(table, j) == [x \in DOMAIN table \ {j} |-> table[x]]

\* JobManager::updateJobStatus: the first job whose pgid is pid.
updateJobStatus(table, pid, status) ==
    LET m == { j \in DOMAIN table : table[j].pgid = pid }
    IN  IF m = {} THEN table ELSE [table EXCEPT ![MinOf(m)].status = status]

\* What waitpid reports about child p: its end, or with WUNTRACED a stop that
\* has not been reported yet.
Ended(p) == procs[p].st = "zombie"
NewlyStopped(p) == procs[p].st = "stopped" /\ ~procs[p].stopSeen

\* The child after waitpid has reported it.
Reported(p) ==
    IF Ended(p) THEN [procs[p] EXCEPT !.st = "reaped"]
    ELSE [procs[p] EXCEPT !.stopSeen = TRUE]

\* A waitpid of the main flow that is already asleep gets its child's change
\* of state before the handler runs: waitpid(pid, 0) the end of pid,
\* waitpid(-pgid, WUNTRACED) the end or stop of a member of the group.
SleepsOnEnd(p) ==
    \/ spc = "fgsleep" /\ p = wpid
    \/ spc = "fg_sleep" /\ procs[p].pgid = jobs[curjob].pgid

SleepsOnStop(p) == spc = "fg_sleep" /\ procs[p].pgid = jobs[curjob].pgid

InitJobs ==
    /\ procs = [p \in Pids |-> NoProc]
    /\ jobs = <<>>
    /\ next_job_id = 1
    /\ spc = "clean"
    /\ jit = 1
    /\ wpid = 0
    /\ curjob = 0
    /\ wres = "none"
    /\ tty_fg = ShellPgid
    /\ sigchld = FALSE
    /\ subLines = [p \in Pids |-> 0]
    /\ doneLines = [p \in Pids |-> 0]
    /\ last_background_pid = 0

\* Shell::run, line 538: back to the top of the loop.
GoPrompt == spc' = "clean" /\ jit' = 1

\* JobManager::printAndCleanCompletedJobs, lines 152-169: one pass of the
\* loop, up to the completion line; after the last job, showPrompt and
\* readInput.
CleanStep ==
    /\ spc = "clean"
    /\ LET keys == { j \in DOMAIN jobs : j >= jit }
       IN  IF keys = {}
           THEN spc' = "read" /\ UNCHANGED <<jit, curjob, doneLines>>
           ELSE LET j == MinOf(keys)
                IN  IF Finished(jobs[j])
                    THEN /\ doneLines' = [doneLines EXCEPT ![jobs[j].pgid] = @ + 1]
                         /\ curjob' = j
                         /\ spc' = "erase"
                         /\ UNCHANGED jit
                    ELSE jit' = j + 1 /\ UNCHANGED <<spc, curjob, doneLines>>
    /\ UNCHANGED <<procs, jobs, next_job_id, wpid, wres, tty_fg, sigchld, subLines,
                   last_background_pid, st>>
    /\ UNCHANGED <<lineVars, pipeVars, runVars, childVars>>

\* printAndCleanCompletedJobs, line 166: "it = jobs.erase(it)"
EraseJob ==
    /\ spc = "erase"
    /\ jobs' = Erase(jobs, curjob)
    /\ jit' = curjob + 1
    /\ spc' = "clean"
    /\ UNCHANGED <<procs, next_job_id, wpid, curjob, wres, tty_fg, sigchld, subLines,
                   doneLines, last_background_pid, st>>
    /\ UNCHANGED <<lineVars, pipeVars, runVars, childVars>>

\* A line that starts no child and touches no job.
ReadBlank ==
    /\ spc = "read"
    /\ GoPrompt
    /\ UNCHANGED <<procs, jobs, next_job_id, wpid, curjob, wres, tty_fg, sigchld,
                   subLines, doneLines, last_background_pid, st>>
    /\ UNCHANGED <<lineVars, pipeVars, runVars, childVars>>

\* "cmd &": Executor::execute, lines 40-49, and executeSingleCommand, lines
\* 90-94 and 128-136: fork, setpgid(pid, 0), the submission line, return 0.
\* fork fails when the system says so, and when no process is left to give.
StartBackground ==
    /\ spc = "read"
    /\ \E ok \in BOOLEAN :
          IF ok /\ FreePids # {}
          THEN LET p == MinOf(FreePids)
               IN  /\ procs' = [procs EXCEPT ![p] = [st |-> "running", status |-> NoStatus,
                                                      pgid |-> p, stopSeen |-> FALSE]]
                   /\ last_background_pid' = p
                   /\ subLines' = [subLines EXCEPT ![p] = @ + 1]
                   /\ st' = [st EXCEPT !.last_exit_status = 0]
                   /\ spc' = "addJob"
                   /\ UNCHANGED jit
          ELSE /\ last_background_pid' = 0
               /\ st' = [st EXCEPT !.last_exit_status = -1]
               /\ GoPrompt
               /\ UNCHANGED <<procs, subLines>>
    /\ UNCHANGED <<jobs, next_job_id, wpid, curjob, wres, tty_fg, sigchld, doneLines>>
    /\ UNCHANGED <<lineVars, pipeVars, runVars, childVars>>

\* "a | b &": Executor::execute, lines 52-55: an error message and -1.
StartBackgroundPipeline ==
    /\ spc = "read"
    /\ last_background_pid' = 0
    /\ st' = [st EXCEPT !.last_exit_status = -1]
    /\ GoPrompt
    /\ UNCHANGED <<procs, jobs, next_job_id, wpid, curjob, wres, tty_fg, sigchld,
                   subLines, doneLines>>
    /\ UNCHANGED <<lineVars, pipeVars, runVars, childVars>>

\* "cmd": executeSingleCommand, lines 90-94: the child stays in the shell's
\* process group and the terminal is left as it is.
StartForeground ==
    /\ spc = "read"
    /\ last_background_pid' = 0
    /\ \E ok \in BOOLEAN :
          IF ok /\ FreePids # {}
          THEN LET p == MinOf(FreePids)
               IN  /\ procs' = [procs EXCEPT ![p] = [st |-> "running", status |-> NoStatus,
                                                      pgid |-> ShellPgid, stopSeen |-> FALSE]]
                   /\ wpid' = p
                   /\ spc' = "fgwait"
                   /\ UNCHANGED <<st, jit>>
          ELSE /\ st' = [st EXCEPT !.last_exit_status = -1]
               /\ GoPrompt
               /\ UNCHANGED <<procs, wpid>>
    /\ UNCHANGED <<jobs, next_job_id, curjob, wres, tty_fg, sigchld, subLines, doneLines>>
    /\ UNCHANGED <<lineVars, pipeVars, runVars, childVars>>

\* addJob without the increment of next_job_id.
AddJobInsertSameId ==
    /\ spc = "addJob"
    /\ last_background_pid > 0
    /\ jobs' = jobs @@ (next_job_id :> [pgid |-> 0, status |-> "RUNNING"])
    /\ curjob' = next_job_id
    /\ spc' = "addJob_assign"
    /\ UNCHANGED <<procs, jit, wpid, wres, tty_fg, sigchld, subLines, doneLines,
                   last_background_pid, st, next_job_id>>
    /\ UNCHANGED <<lineVars, pipeVars, runVars, childVars>>

\* JobManager::addJob, called by processInput, lines 622-624, when bg_pid > 0.
\* "jobs[job.job_id] = job" first inserts a default Job (pgid 0, RUNNING) ...
AddJobInsert ==
    /\ spc = "addJob"
    /\ last_background_pid > 0
    /\ jobs' = jobs @@ (next_job_id :> [pgid |-> 0, status |-> "RUNNING"])
    /\ curjob' = next_job_id
    /\ next_job_id' = next_job_id + 1
    /\ spc' = "addJob_assign"
    /\ UNCHANGED <<procs, jit, wpid, wres, tty_fg, sigchld, subLines, doneLines,
                   last_background_pid, st>>
    /\ UNCHANGED <<lineVars, pipeVars, runVars, childVars>>

\* ... and then assigns the fields.
AddJobAssign ==
    /\ spc = "addJob_assign"
    /\ jobs' = [jobs EXCEPT ![curjob] = [pgid |-> last_background_pid, status |-> "RUNNING"]]
    /\ GoPrompt
    /\ UNCHANGED <<procs, next_job_id, wpid, curjob, wres, tty_fg, sigchld, subLines,
                   doneLines, last_background_pid, st>>
    /\ UNCHANGED <<lineVars, pipeVars, runVars, childVars>>

\* executeSingleCommand, lines 139-154: waitpid(pid, &status, 0) returned.
ForegroundReturn ==
    LET c == procs[wpid]
    IN  /\ IF c.st = "zombie"
           THEN /\ procs' = [procs EXCEPT ![wpid].st = "reaped"]
                /\ st' = [st EXCEPT !.last_exit_status = StatusValue(c.status)]
           ELSE /\ st' = [st EXCEPT !.last_exit_status = -1]
                /\ UNCHANGED procs
        /\ GoPrompt

\* The call of waitpid(pid, &status, 0): no WUNTRACED, so a stopped child
\* keeps it asleep.  ECHILD when the handler has collected the child.
ForegroundWait ==
    /\ spc = "fgwait"
    /\ IF procs[wpid].st \in {"zombie", "reaped"}
       THEN ForegroundReturn
       ELSE spc' = "fgsleep" /\ UNCHANGED <<procs, st, jit>>
    /\ UNCHANGED <<jobs, next_job_id, wpid, curjob, wres, tty_fg, sigchld, subLines,
                   doneLines, last_background_pid>>
    /\ UNCHANGED <<lineVars, pipeVars, runVars, childVars>>

ForegroundWake ==
    /\ spc = "fgsleep"
    /\ procs[wpid].st = "zombie"
    /\ ForegroundReturn
    /\ UNCHANGED <<jobs, next_job_id, wpid, curjob, wres, tty_fg, sigchld, subLines,
                   doneLines, last_background_pid>>
    /\ UNCHANGED <<lineVars, pipeVars, runVars, childVars>>

\* "fg j": FgCommandHandler::handle and JobManager::bringToForeground, lines
\* 36-49: find the job, give its group the terminal.
FgCommand(j) ==
    /\ spc = "read"
    /\ IF j \in DOMAIN jobs /\ GroupExists(jobs[j].pgid)
       THEN /\ tty_fg' = jobs[j].pgid
            /\ curjob' = j
            /\ spc' = "fg_status"
            /\ UNCHANGED jit
       ELSE GoPrompt /\ UNCHANGED <<tty_fg, curjob>>
    /\ UNCHANGED <<procs, jobs, next_job_id, wpid, wres, sigchld, subLines,
                   doneLines, last_background_pid, st>>
    /\ UNCHANGED <<lineVars, pipeVars, runVars, childVars>>

\* bringToForeground, lines 52 and 60: the test of job.status; a job that is
\* not stopped is marked RUNNING.
FgReadStatus ==
    /\ spc = "fg_status"
    /\ IF jobs[curjob].status = "STOPPED"
       THEN spc' = "fg_kill" /\ UNCHANGED jobs
       ELSE /\ jobs' = [jobs EXCEPT ![curjob].status = "RUNNING"]
            /\ spc' = "fg_wait"
    /\ UNCHANGED <<procs, next_job_id, jit, wpid, curjob, wres, tty_fg, sigchld,
                   subLines, doneLines, last_background_pid, st>>
    /\ UNCHANGED <<lineVars, pipeVars, runVars, childVars>>

\* SIGCONT reaches every stopped member of group g.
Continued(g) ==
    [p \in Pids |-> IF procs[p].pgid = g /\ procs[p].st = "stopped"
                    THEN [procs[p] EXCEPT !.st = "running", !.stopSeen = FALSE]
                    ELSE procs[p]]

\* bringToForeground, lines 53-60: kill(-job.pgid, SIGCONT); when it fails the
\* function returns at once.
FgKill ==
    /\ spc = "fg_kill"
    /\ IF GroupExists(jobs[curjob].pgid)
       THEN /\ procs' = Continued(jobs[curjob].pgid)
            /\ jobs' = [jobs EXCEPT ![curjob].status = "RUNNING"]
            /\ spc' = "fg_wait"
            /\ UNCHANGED jit
       ELSE GoPrompt /\ UNCHANGED <<procs, jobs>>
    /\ UNCHANGED <<next_job_id, wpid, curjob, wres, tty_fg, sigchld, subLines,
                   doneLines, last_background_pid, st>>
    /\ UNCHANGED <<lineVars, pipeVars, runVars, childVars>>

\* The members of the job's group waitpid(-pgid, WUNTRACED) can report.
FgWaitable == { p \in Pids : procs[p].pgid = jobs[curjob].pgid
                             /\ (Ended(p) \/ NewlyStopped(p)) }

FgTake(p) ==
    /\ procs' = [procs EXCEPT ![p] = Reported(p)]
    /\ wres' = IF Ended(p) THEN procs[p].status.kind ELSE "stopped"
    /\ spc' = "fg_restore"

\* bringToForeground, lines 63-67: the call of waitpid(-job.pgid, &status,
\* WUNTRACED); SA_RESTART leaves no EINTR, ECHILD ends the loop with -1.
FgWait ==
    /\ spc = "fg_wait"
    /\ IF FgWaitable # {} THEN \E p \in FgWaitable : FgTake(p)
       ELSE IF ~GroupExists(jobs[curjob].pgid)
       THEN wres' = "fail" /\ spc' = "fg_restore" /\ UNCHANGED procs
       ELSE spc' = "fg_sleep" /\ UNCHANGED <<procs, wres>>
    /\ UNCHANGED <<jobs, next_job_id, jit, wpid, curjob, tty_fg, sigchld, subLines,
                   doneLines, last_background_pid, st>>
    /\ UNCHANGED <<lineVars, pipeVars, runVars, childVars>>

FgWake ==
    /\ spc = "fg_sleep"
    /\ \E p \in FgWaitable : FgTake(p)
    /\ UNCHANGED <<jobs, next_job_id, jit, wpid, curjob, tty_fg, sigchld, subLines,
                   doneLines, last_background_pid, st>>
    /\ UNCHANGED <<lineVars, pipeVars, runVars, childVars>>

\* bringToForeground, lines 70-85: tcsetpgrp(STDIN_FILENO, getpgrp()), its
\* result not looked at; then the job is marked stopped, or erased without a
\* completion line.  The shell calls it from a background group with SIGTTOU
\* as it inherited it: ignored, the call succeeds; at its default, the call
\* is refused (ENOTTY in an orphaned group) and the terminal stays with the
\* job's group.
FgRestore ==
    /\ spc = "fg_restore"
    /\ \E ok \in BOOLEAN : tty_fg' = IF ok THEN ShellPgid ELSE tty_fg
    /\ jobs' = IF wres = "stopped" THEN [jobs EXCEPT ![curjob].status = "STOPPED"]
               ELSE IF wres \in {"exit", "signal"} THEN Erase(jobs, curjob)
               ELSE jobs
    /\ GoPrompt
    /\ UNCHANGED <<procs, next_job_id, wpid, curjob, wres, sigchld, subLines,
                   doneLines, last_background_pid, st>>
    /\ UNCHANGED <<lineVars, pipeVars, runVars, childVars>>

\* "bg j": JobManager::resumeInBackground
BgCommand(j) ==
    /\ spc = "read"
    /\ IF j \in DOMAIN jobs /\ jobs[j].status = "STOPPED" /\ GroupExists(jobs[j].pgid)
       THEN /\ procs' = Continued(jobs[j].pgid)
            /\ jobs' = [jobs EXCEPT ![j].status = "RUNNING"]
       ELSE UNCHANGED <<procs, jobs>>
    /\ GoPrompt
    /\ UNCHANGED <<next_job_id, wpid, curjob, wres, tty_fg, sigchld, subLines,
                   doneLines, last_background_pid, st>>
    /\ UNCHANGED <<lineVars, pipeVars, runVars, childVars>>

\* The children the handler's waitpid(-1, WNOHANG | WUNTRACED) loop reports.
Collectable ==
    { p \in Pids : \/ Ended(p) /\ ~SleepsOnEnd(p)
                   \/ NewlyStopped(p) /\ ~SleepsOnStop(p) }

RECURSIVE UpdateAll(_, _)
UpdateAll(table, ps) ==
    IF ps = {} THEN table
    ELSE LET p == MinOf(ps)
         IN  UpdateAll(updateJobStatus(table, p,
                           IF Ended(p) THEN JobStatusOf(procs[p].status) ELSE "STOPPED"),
                       ps \ {p})

\* The main flow is inside a change of the std::map: the node of addJob is
\* inserted but not filled, or the node of a finished job is being erased.
Mutating == spc \in {"addJob_assign", "erase"}

\* sigchld_handler and JobManager::checkCompletedJobs, run between any two
\* instructions of the main flow: SIGCHLD is never blocked.  Inside a change
\* of the map the walk of updateJobStatus is a data race: it sees the map as
\* it stands, or misses its nodes, or the shell dies.
checkCompletedJobs ==
    /\ sigchld
    /\ spc # "crashed"
    /\ sigchld' = FALSE
    /\ procs' = [p \in Pids |-> IF p \in Collectable THEN Reported(p) ELSE procs[p]]
    /\ \/ jobs' = UpdateAll(jobs, Collectable) /\ UNCHANGED spc
       \/ Mutating /\ UNCHANGED <<jobs, spc>>
       \/ Mutating /\ spc' = "crashed" /\ UNCHANGED jobs
    /\ UNCHANGED <<next_job_id, jit, wpid, curjob, wres, tty_fg, subLines, doneLines,
                   last_background_pid, st>>
    /\ UNCHANGED <<lineVars, pipeVars, runVars, childVars>>

\* Child p exits.  SIGCHLD is raised.
ProcExit(p) ==
    /\ procs[p].st = "running"
    /\ \E code \in ExitCodes :
          procs' = [procs EXCEPT ![p].st = "zombie", ![p].status = Exited(code)]
    /\ sigchld' = TRUE
    /\ UNCHANGED <<jobs, next_job_id, spc, jit, wpid, curjob, wres, tty_fg, subLines,
                   doneLines, last_background_pid, st>>
    /\ UNCHANGED <<lineVars, pipeVars, runVars, childVars>>

\* A stop signal (SIGTSTP from the terminal, SIGSTOP) stops child p.
\* SA_NOCLDSTOP: no SIGCHLD is raised.
ProcStop(p) ==
    /\ procs[p].st = "running"
    /\ procs' = [procs EXCEPT ![p].st = "stopped", ![p].stopSeen = FALSE]
    /\ UNCHANGED <<jobs, next_job_id, spc, jit, wpid, curjob, wres, tty_fg, sigchld,
                   subLines, doneLines, last_background_pid, st>>
    /\ UNCHANGED <<lineVars, pipeVars, runVars, childVars>>

\* A signal kills child p, running or stopped.  SIGCHLD is raised.
ProcKill(p) ==
    /\ procs[p].st \in {"running", "stopped"}
    /\ \E sig \in KillSignals :
          procs' = [procs EXCEPT ![p].st = "zombie", ![p].status = Signaled(sig)]
    /\ sigchld' = TRUE
    /\ UNCHANGED <<jobs, next_job_id, spc, jit, wpid, curjob, wres, tty_fg, subLines,
                   doneLines, last_background_pid, st>>
    /\ UNCHANGED <<lineVars, pipeVars, runVars, childVars>>

-----------------------------------------------------------------------------
(* Shell::run over a sequence of lines (src/unnamed/part_007, lines 535-627) *)

\* Tokenizer::tokenize as one function: the while loop, the last flush and
\* the END marker.  t holds the loop's variables i, tokens, current and state;
\* each pass takes their values from the one-element set of the pass before.
\* A token vector beyond MaxTokens is std::bad_alloc: no token sequence, <<>>.
RECURSIVE TokenizeFrom(_, _)
TokenizeFrom(input, t) ==
    IF Len(t.tokens) > MaxTokens THEN <<>>
    ELSE IF t.i < Len(input)
    THEN LET r == LoopBody(input, t.i, t.tokens, t.current, t.state)
         IN  CHOOSE toks \in { TokenizeFrom(input, n) :
                                  n \in { [i |-> t.i + r.adv, tokens |-> r.tokens,
                                           current |-> r.current, state |-> r.state] } } :
                 TRUE
    ELSE Append(Flush(t.tokens, t.current), Tok("END_OF_INPUT", <<>>))

tokenize(input) ==
    TokenizeFrom(input, [i |-> 0, tokens |-> <<>>, current |-> <<>>, state |-> "NORMAL"])

\* The lines the user may type in a run: the empty line, a blank line, cd in
\* its forms, exit in its forms, fg and bg without and with a job, export with and
\* without '=', and a program.
SessionLines ==
    { <<>>, <<" ">>,
      <<"c", "d">>, <<"c", "d", " ", "a">>, <<"c", "d", " ", "h">>,
      <<"c", "d", " ", "-">>, <<"c", "d", " ", "z">>,
      <<"e", "x", "i", "t">>, <<"e", "x", "i", "t", " ", "3">>,
      <<"e", "x", "i", "t", " ", "a">>,
      <<"f", "g">>, <<"b", "g">>,
      <<"f", "g", " ", "1">>, <<"f", "g", " ", "a">>, <<"b", "g", " ", "a">>,
      <<"e", "x", "p", "o", "r", "t", " ", "a">>,
      <<"e", "x", "p", "o", "r", "t", " ", "a", "=", "1">>,
      <<"e", "x", "p", "o", "r", "t", " ", "a", "=", "2">>,
      <<"a">> }

\* std::cin.eof() in readInput.  The lines are read by readline() from the
\* C stream; nothing in the shell reads from std::cin, so its eofbit is
\* never set.
CinEof == FALSE

\* processInput, lines 608-626: what follows the dispatch of cmd, which left d.
AfterDispatch(cmd, d) ==
    LET Out(s, e, f, c) == [st |-> s, penv |-> e, forked |-> f, continue |-> c,
                            thrown |-> FALSE]
    IN  IF d.thrown
        THEN { [st |-> d.st, penv |-> d.penv, forked |-> 0, continue |-> FALSE,
                thrown |-> TRUE] }
        ELSE IF ~d.st.running THEN { Out(d.st, d.penv, 0, FALSE) }
        ELSE IF d.handled THEN { Out(d.st, d.penv, 0, TRUE) }
        ELSE { Out([d.st EXCEPT !.last_exit_status = o.status], d.penv, o.forked, TRUE) :
                   o \in ExecuteOutcomes(cmd) }

\* Shell::processInput as a function of the line and the state it meets: the
\* state and environment it leaves, the children forked, and its return value.
processInputOutcomes(input, state, env) ==
    LET Out(s, e, f, c) == [st |-> s, penv |-> e, forked |-> f, continue |-> c,
                            thrown |-> FALSE]
        logged == [state EXCEPT !.command_history = Append(@, input)]
    IN  IF input = <<>> THEN { Out(state, env, 0, TRUE) }
        ELSE IF FirstNonBlank(input, 1) = 0 THEN { Out(logged, env, 0, TRUE) }
        ELSE UNION { AfterDispatch(cmd, dispatch(cmd, logged, env)) :
                         cmd \in { parse(toks) : toks \in { tokenize(Trim(input)) } } }

InitRun ==
    /\ rpc = "prompt" /\ rinput = <<>> /\ script = <<>> /\ eof = FALSE
    /\ st = InitState

\* Shell::run, lines 538-547, with readInput handed a line by the user.
readInput ==
    /\ rpc = "prompt"
    /\ st.running
    /\ ~eof
    /\ Len(script) < MaxLines
    /\ \E l \in SessionLines :
          /\ rinput' = l
          /\ script' = Append(script, [input |-> l, cwd |-> st.current_directory,
                                       status |-> st.last_exit_status])
    /\ rpc' = "process"
    /\ UNCHANGED <<st, eof>>
    /\ UNCHANGED <<lineVars, pipeVars, jobVars, childVars>>

\* Shell::run, lines 538-547, with the line source at end-of-input:
\* readline returns NULL and readLineWithCompletion the empty string.
readInputAtEof ==
    /\ rpc = "prompt"
    /\ st.running
    /\ eof' = TRUE
    /\ IF CinEof
       THEN /\ st' = [st EXCEPT !.running = FALSE]
            /\ rinput' = <<"e", "x", "i", "t">>
       ELSE /\ rinput' = <<>>
            /\ UNCHANGED st
    /\ rpc' = "process"
    /\ UNCHANGED script
    /\ UNCHANGED <<lineVars, pipeVars, jobVars, childVars>>

\* Shell::run, lines 549-555: processInput, and the break when it returns
\* false.  An exception that leaves processInput leaves run as well: main
\* catches it and the shell ends.
processInput ==
    /\ rpc = "process"
    /\ \E o \in processInputOutcomes(rinput, st, penv) :
          /\ st' = o.st
          /\ penv' = o.penv
          /\ nforks' = nforks + o.forked
          /\ rpc' = IF o.thrown THEN "thrown"
                    ELSE IF o.continue THEN "prompt" ELSE "returned"
    /\ UNCHANGED <<rinput, script, eof>>
    /\ UNCHANGED <<line, pc, trimmed, pos, tokens, current, tstate, parsed_cmd, ltable,
                   lnext_job_id>>
    /\ UNCHANGED <<pipeVars, jobVars, childVars>>

-----------------------------------------------------------------------------
(* The lines of the lexical claims: a word, an operator and a word, with or  *)
(* without blanks around the operator, and words with a digit 2 in them      *)

LexWords == { <<"a">>, <<"l", "s">> }

\* The operator lexemes Tokenizer::handleSpecialTokens looks for.
Operators ==
    { <<"2", ">", ">">>, <<">", ">">>, <<"2", ">">>, <<"<">>, <<">">>, <<"|">>, <<"&">>,
      <<";">> }

Pads == { <<>>, <<" ">> }

WordsWithTwo == { <<"2">>, <<"1", "2">>, <<"a", "2">>, <<"f", "2", ".", "t">> }

\* One stage with words and redirections in several orders.
InterleavedLines ==
    { <<"a", " ", "b", ">", "f">>, <<"a", ">", "f", " ", "b">>, <<"a", ">", "f", ">", "g">>,
      <<"a", ">", "f", " ", "b", ">", "g">> }

LexLines ==
    { w1 \o p1 \o op \o p2 \o w2 :
          w1 \in LexWords, p1 \in Pads, op \in Operators, p2 \in Pads, w2 \in LexWords }
        \cup WordsWithTwo \cup InterleavedLines

InitLex ==
    /\ line \in LexLines
    /\ pc = "read"
    /\ trimmed = <<>>
    /\ pos = 0
    /\ tokens = <<>>
    /\ current = <<>>
    /\ tstate = "NORMAL"
    /\ parsed_cmd = NoParse
    /\ st = InitState
    /\ penv = [OLDPWD |-> <<>>, PWD |-> WorkDir, exported |-> <<>>]
    /\ nforks = 0
    /\ ltable = <<>>
    /\ lnext_job_id = 1

-----------------------------------------------------------------------------
(* A forked child on its way to exec (Executor::executeCommandInChild,       *)
(* src/unnamed/part_006; EnvironmentVariableExpander,                        *)
(* src/src/executor/environment_expander.cpp; ExecutableResolver)            *)

\* [A-Za-z_] and [A-Za-z0-9_] on the characters of the alphabet
IsNameStart(c) == c \in {"A", "B", "x", "p", "_"}

IsNameChar(c) == IsNameStart(c) \/ Digit(c) >= 0

\* The first index from k on that holds no name character.
RECURSIVE NameEnd(_, _)
NameEnd(s, k) == IF k <= Len(s) /\ IsNameChar(s[k]) THEN NameEnd(s, k + 1) ELSE k

\* The first index from k on that holds "}"; 0 when there is none.
RECURSIVE CloseBrace(_, _)
CloseBrace(s, k) ==
    IF k > Len(s) THEN 0 ELSE IF s[k] = "}" THEN k ELSE CloseBrace(s, k + 1)

\* var_regex at offset i of s:  \$\{([^}]+)\}  first, then  \$([A-Za-z_][A-Za-z0-9_]*).
\* len is the length of match[0], 0 for no match; name is the group matched.
MatchAt(s, i) ==
    LET close == IF i + 2 <= Len(s) /\ s[i + 2] = "{" THEN CloseBrace(s, i + 3) ELSE 0
    IN  IF s[i + 1] # "$" THEN [len |-> 0, name |-> <<>>]
        ELSE IF close >= i + 4
        THEN [len |-> close - i, name |-> SubSeq(s, i + 3, close - 1)]
        ELSE IF i + 2 <= Len(s) /\ IsNameStart(s[i + 2])
        THEN [len |-> NameEnd(s, i + 3) - 1 - i, name |-> SubSeq(s, i + 2, NameEnd(s, i + 3) - 1)]
        ELSE [len |-> 0, name |-> <<>>]

\* std::regex_search from search_start: the offset of the leftmost match, -1 for none.
RECURSIVE FindMatch(_, _)
FindMatch(s, start) ==
    IF start >= Len(s) THEN -1
    ELSE IF MatchAt(s, start).len > 0 THEN start
    ELSE FindMatch(s, start + 1)

\* std::string::find from offset k on: the first offset where sub stands, -1 for npos.
RECURSIVE Find(_, _, _)
Find(s, sub, k) ==
    IF k + Len(sub) > Len(s) THEN -1
    ELSE IF SubSeq(s, k + 1, k + Len(sub)) = sub THEN k
    ELSE Find(s, sub, k + 1)

\* std::string::replace(pos, n, replacement)
Replace(s, at, n, replacement) ==
    SubSeq(s, 1, at) \o replacement \o SubSeq(s, at + n + 1, Len(s))

\* EnvironmentVariableExpander::getVariableValue
getVariableValue(env, name) == IF name \in DOMAIN env THEN env[name] ELSE <<>>

\* The while loop of expand: the matches are looked for in input, each is
\* replaced in result where result.find finds its text first.
RECURSIVE ExpandFrom(_, _, _, _)
ExpandFrom(input, search_start, result, env) ==
    LET i == FindMatch(input, search_start)
    IN  IF i < 0 THEN result
        ELSE LET m     == MatchAt(input, i)
                 text  == SubSeq(input, i + 1, i + m.len)
                 at    == Find(result, text, 0)
                 value == getVariableValue(env, m.name)
             IN  ExpandFrom(input, i + m.len,
                            IF at >= 0 THEN Replace(result, at, m.len, value) ELSE result,
                            env)

\* EnvironmentVariableExpander::expand
expand(input, env) == ExpandFrom(input, 0, input, env)

\* The arguments the child's program is given on the lines of the model.
ChildWords ==
    { <<"x">>, <<"$", "A">>, <<"$", "{", "A", "}">>, <<"$", "A", "$", "B">>,
      <<"x", "$", "B">>, <<"$", "A", "x">> }

\* A word as it is written bare, in double quotes, in single quotes.
Quoted(w, q) == IF q = "bare" THEN w ELSE <<q>> \o w \o <<q>>

ChildLines == { <<"p", " ">> \o Quoted(w, q) : w \in ChildWords, q \in {"bare", "\"", "'"} }

\* The environments: A and B are set, each to one of these values.
ChildEnvs == [ {<<"A">>, <<"B">>} -> { <<>>, <<"y">>, <<"$", "B">> } ]

\* What the command name stands for: no file on PATH, a file without the
\* owner's x bit, a program, a file with the x bit that execvp cannot run.
FileKinds == {"missing", "not_executable", "executable", "exec_fails"}

\* The child after fork: it holds the Command parsed from the line.
InitChild ==
    /\ kpc = "forked"
    /\ kline \in ChildLines
    /\ kenv \in ChildEnvs
    /\ kfile \in FileKinds
    /\ kargs = parse(tokenize(kline)).commands[1].args
    /\ kstatus = -1
    /\ st = InitState

\* executeCommandInChild, lines 163-167
expandArgs ==
    /\ kpc = "forked"
    /\ kargs' = [i \in DOMAIN kargs |-> expand(kargs[i], kenv)]
    /\ kpc' = "expanded"
    /\ UNCHANGED <<kline, kenv, kfile, kstatus, st>>
    /\ UNCHANGED <<lineVars, pipeVars, jobVars, runVars>>

\* executeCommandInChild, lines 169-174; ExecutableResolver::findExecutable
\* returns "" for a name that isExecutable accepts in no directory of PATH.
findExecutable ==
    /\ kpc = "expanded"
    /\ IF kfile \in {"missing", "not_executable"}
       THEN kstatus' = 127 /\ kpc' = "exited"
       ELSE kpc' = "resolved" /\ UNCHANGED kstatus
    /\ UNCHANGED <<kline, kenv, kfile, kargs, st>>
    /\ UNCHANGED <<lineVars, pipeVars, jobVars, runVars>>

\* executeCommandInChild, lines 195-200
execvp ==
    /\ kpc = "resolved"
    /\ IF kfile = "executable"
       THEN kpc' = "executing" /\ UNCHANGED kstatus
       ELSE kstatus' = 1 /\ kpc' = "exited"
    /\ UNCHANGED <<kline, kenv, kfile, kargs, st>>
    /\ UNCHANGED <<lineVars, pipeVars, jobVars, runVars>>

-----------------------------------------------------------------------------
(* The specifications.  Each starts the other parts at rest. *)

LineAtRest ==
    /\ line = <<>> /\ pc = "rest" /\ trimmed = <<>> /\ pos = 0 /\ tokens = <<>>
    /\ current = <<>> /\ tstate = "NORMAL" /\ parsed_cmd = NoParse
    /\ penv = [OLDPWD |-> <<>>, PWD |-> WorkDir, exported |-> <<>>]
    /\ nforks = 0 /\ ltable = <<>> /\ lnext_job_id = 1

PipeAtRest ==
    /\ nCmds = 1 /\ in_file = {} /\ out_file = {} /\ fdsBefore = <<>> /\ fds = <<>> /\ pipes = <<>> /\ ppc = "rest"
    /\ pids = <<>> /\ wi = 0 /\ child = <<>> /\ exit_status = -1

JobsAtRest ==
    /\ procs = <<>> /\ jobs = <<>> /\ next_job_id = 1 /\ spc = "rest" /\ jit = 1
    /\ wpid = 0 /\ curjob = 0 /\ wres = "none" /\ tty_fg = ShellPgid
    /\ sigchld = FALSE /\ subLines = <<>> /\ doneLines = <<>>
    /\ last_background_pid = 0

RunAtRest == rpc = "rest" /\ rinput = <<>> /\ script = <<>> /\ eof = FALSE

ChildAtRest ==
    /\ kpc = "rest" /\ kline = <<>> /\ kenv = <<>> /\ kfile = "missing" /\ kargs = <<>>
    /\ kstatus = -1

\* processInput on one line
Init == InitLine /\ PipeAtRest /\ JobsAtRest /\ RunAtRest /\ ChildAtRest

Next == ReadLine \/ TokStep \/ TokFinish \/ Parse \/ Dispatch \/ Execute

Spec == Init /\ [][Next]_vars

\* Executor::execute on a foreground pipeline, in the shell with its handler
InitP == InitPipe /\ st = InitState /\ LineAtRest /\ JobsAtRest /\ RunAtRest /\ ChildAtRest

ParentStep ==
    \/ ExecuteStart \/ CreatePipe \/ CreatePipesDone \/ Fork \/ ForkDone
    \/ WaitCall \/ WaitWake \/ WaitDone

NextP ==
    \/ ParentStep
    \/ \E i \in 1 .. MaxStages : ChildSetup(i) \/ ChildExit(i) \/ ChildKilled(i)
    \/ sigchld_handler

\* The shell runs on, every forked child gets to its exec, and a program
\* whose input is at end-of-file exits.
SpecPipe ==
    /\ InitP /\ [][NextP]_vars
    /\ WF_vars(ParentStep)
    /\ \A i \in 1 .. MaxStages : WF_vars(ChildSetup(i)) /\ WF_vars(ChildExit(i))

\* Shell::run with background jobs, fg, bg and the handler
InitJ == InitJobs /\ st = InitState /\ LineAtRest /\ PipeAtRest /\ RunAtRest /\ ChildAtRest

MainStep ==
    \/ CleanStep \/ EraseJob \/ ReadBlank
    \/ StartBackground \/ StartBackgroundPipeline \/ StartForeground
    \/ AddJobInsert \/ AddJobAssign \/ ForegroundWait \/ ForegroundWake
    \/ \E j \in JobIds : FgCommand(j) \/ BgCommand(j)
    \/ FgReadStatus \/ FgKill \/ FgWait \/ FgWake \/ FgRestore

NextJ ==
    \/ MainStep
    \/ checkCompletedJobs
    \/ \E p \in Pids : ProcExit(p) \/ ProcStop(p) \/ ProcKill(p)

\* The shell's main flow runs on, a pending SIGCHLD is delivered, and a
\* running child ends by itself.
SpecJobs ==
    /\ InitJ /\ [][NextJ]_vars
    /\ WF_vars(MainStep)
    /\ WF_vars(checkCompletedJobs)
    /\ \A p \in Pids : WF_vars(ProcExit(p))

\* Shell::run over the lines of a session
InitR == InitRun /\ LineAtRest /\ PipeAtRest /\ JobsAtRest /\ ChildAtRest

NextR == readInput \/ readInputAtEof \/ processInput

\* The shell runs on: a read returns, and a line read is processed.
SpecRun == InitR /\ [][NextR]_vars /\ WF_vars(NextR)

\* processInput on the lines of the lexical claims
InitL == InitLex /\ PipeAtRest /\ JobsAtRest /\ RunAtRest /\ ChildAtRest

SpecLex == InitL /\ [][Next]_vars

\* executeCommandInChild in a forked child
InitC == InitChild /\ LineAtRest /\ PipeAtRest /\ JobsAtRest /\ RunAtRest

NextC == expandArgs \/ findExecutable \/ execvp

SpecChild == InitC /\ [][NextC]_vars

-----------------------------------------------------------------------------
(* Properties of processInput (specification Spec) *)

InitEnv == [OLDPWD |-> <<>>, PWD |-> WorkDir, exported |-> <<>>]

\* The tokenizer has returned and left a quote open.
QuoteLeftOpen ==
    /\ pc \in {"parse", "dispatch", "execute", "done", "exited"}
    /\ tstate # "NORMAL"

\* C6: a line whose quote is never closed is rejected as a syntax error: it
\* is not handed to the executor, no child is forked for it, and the status
\* it leaves is the syntax error's.
C6_UnterminatedQuoteRejected ==
    QuoteLeftOpen =>
        /\ pc # "execute"
        /\ nforks = 0
        /\ pc = "done" => st.last_exit_status = 2

EndOnceAndLast(toks) ==
    /\ toks # <<>>
    /\ toks[Len(toks)].type = "END_OF_INPUT"
    /\ \A k \in 1 .. (Len(toks) - 1) : toks[k].type # "END_OF_INPUT"

\* C7: tokenize terminates on every input: each pass of its loop moves
\* forward in the input, its vector of tokens stays within memory, and the
\* sequence it returns holds END_OF_INPUT exactly once, as its last token.
C7_TokenizeTerminates ==
    [][pc = "tokenize" =>
          /\ pc' = "tokenize" => pos' > pos
          /\ pc' # "fatal"
          /\ pc' = "parse" => EndOnceAndLast(tokens')]_vars

\* The line is a pipeline of several stages, or a background line, whose
\* first stage names a built-in.
BuiltinNotAlone ==
    /\ pc \in {"execute", "done", "exited"}
    /\ parsed_cmd.commands # <<>>
    /\ parsed_cmd.commands[1].args # <<>>
    /\ parsed_cmd.commands[1].args[1] \in BuiltinNames
    /\ Len(parsed_cmd.commands) >= 2 \/ parsed_cmd.background

\* C8: a built-in named by the first stage runs in the shell only when the
\* pipeline has one stage and is not in the background; otherwise the working
\* directory, the environment, the running flag and the job table stay as
\* they were.
C8_BuiltinOnlyWhenAlone ==
    BuiltinNotAlone =>
        /\ st.current_directory = WorkDir
        /\ penv = InitEnv
        /\ st.running
        /\ ltable = <<>>

\* The parser has returned.
Parsed == pc \in {"dispatch", "execute", "done", "exited"} /\ tokens # <<>>

\* Where the stages of a token sequence start and end.
StageStarts(toks) ==
    {1} \cup { k + 1 : k \in { x \in 1 .. (Len(toks) - 1) : toks[x].type = "PIPE" } }

StageEnd(toks, s) ==
    MinOf({ k \in s .. Len(toks) :
              toks[k].type \in {"PIPE", "BACKGROUND", "SEMICOLON", "END_OF_INPUT"} })

\* The WORDs of the stage at s that are arguments, not redirection targets.
ArgWords(toks, s) ==
    { k \in s .. (StageEnd(toks, s) - 1) :
        toks[k].type = "WORD" /\ (k = s \/ ~IsRedirect(toks[k - 1].type)) }

HasZeroWordStage(toks) ==
    Len(toks) > 1 /\ \E s \in StageStarts(toks) : ArgWords(toks, s) = {}

\* C13: every Command of a parse that reported no error has a non-empty
\* argv, and a token sequence with a stage of zero WORDs is reported as a
\* parse error.
C13_ArgvNonEmpty ==
    Parsed =>
        /\ ~parsed_cmd.diag =>
               \A k \in 1 .. Len(parsed_cmd.commands) : parsed_cmd.commands[k].args # <<>>
        /\ HasZeroWordStage(tokens) => parsed_cmd.diag

\* The parser printed a parse error for the line, and processInput has gone
\* past its dispatch.
Rejected == pc \in {"execute", "done", "exited"} /\ parsed_cmd.diag

\* C14: a line the parser rejects is not executed: no built-in runs on it
\* (directory, environment and running flag stay), it is not handed to the
\* executor and no child is forked, the status it leaves is 2, and the REPL
\* goes on.
C14_RejectedLineNotExecuted ==
    Rejected =>
        /\ pc # "execute" /\ pc # "exited"
        /\ nforks = 0
        /\ st.running
        /\ st.current_directory = WorkDir /\ penv = InitEnv
        /\ pc = "done" => st.last_exit_status = 2

\* The lexeme lex stands in s from position i (counted from 0) on.
At(s, i, lex) == i + Len(lex) <= Len(s) /\ SubSeq(s, i + 1, i + Len(lex)) = lex

\* The pass of tokenize's loop emits one operator token of this type for the
\* n characters at pos, after the word before it.
EmitsOperator(type, n) ==
    /\ pc' = "tokenize"
    /\ pos' = pos + n
    /\ Len(tokens') = Len(Flush(tokens, current)) + 1
    /\ tokens'[Len(tokens')].type = type

\* C23: operators are matched longest-first: an unquoted 2>> gives exactly
\* one REDIRECT_ERR_APPEND token for its three characters, and a 2> that is
\* not followed by > gives one REDIRECT_ERR token for its two.
C23_LongestOperatorFirst ==
    [][pc = "tokenize" /\ tstate = "NORMAL" /\ At(trimmed, pos, <<"2", ">">>) =>
          IF At(trimmed, pos, <<"2", ">", ">">>)
          THEN EmitsOperator("REDIRECT_ERR_APPEND", 3)
          ELSE EmitsOperator("REDIRECT_ERR", 2)]_vars

\* The tokenizer is through with the line: it has returned or thrown.
Tokenized == pc \in {"parse", "fatal"}

\* C24: blanks around an operator change nothing: for every operator and
\* every two words, the line tokenizes to the token sequence of the same
\* words and operator set apart by blanks.
C24_BlanksAroundOperators ==
    Tokenized =>
        \A w1 \in LexWords, w2 \in LexWords, op \in Operators, p1 \in Pads, p2 \in Pads :
            line = w1 \o p1 \o op \o p2 \o w2 =>
                /\ pc = "parse"
                /\ tokens = tokenize(w1 \o <<" ">> \o op \o <<" ">> \o w2)

\* C25: a 2 that is not followed by > is an ordinary character of its word:
\* a word with a 2 in it tokenizes as one WORD with exactly its text.
C25_TwoIsAWordCharacter ==
    Tokenized /\ line \in WordsWithTwo =>
        /\ pc = "parse"
        /\ tokens = <<Tok("WORD", line), Tok("END_OF_INPUT", <<>>)>>

\* The values of the tokens at the positions idx, in order.
ValuesAt(toks, idx) ==
    [n \in 1 .. Cardinality(idx) |->
        toks[CHOOSE k \in idx : Cardinality({ j \in idx : j <= k }) = n].value]

\* The target of the last redirection of one of these types in the stage at
\* s; the empty string when there is none.
LastTarget(toks, s, types) ==
    LET at == { k \in s .. (StageEnd(toks, s) - 2) :
                  toks[k].type \in types /\ toks[k + 1].type = "WORD" }
    IN  IF at = {} THEN <<>> ELSE toks[(CHOOSE k \in at : \A j \in at : j <= k) + 1].value

\* The line is one stage in which every redirection has its target.
OneWellFormedStage(toks) ==
    /\ \A k \in 1 .. Len(toks) : toks[k].type \notin {"PIPE", "BACKGROUND", "SEMICOLON"}
    /\ \A k \in 1 .. (Len(toks) - 1) : IsRedirect(toks[k].type) => toks[k + 1].type = "WORD"
    /\ ArgWords(toks, 1) # {}

\* C26: in a stage, words and redirections may come in any order: argv is
\* the stage's WORDs that are not redirection targets, in order, each
\* redirection field holds the target of the last redirection of its kind,
\* and no parse error is reported.
C26_WordsAndRedirectionsInterleave ==
    Parsed /\ OneWellFormedStage(tokens) =>
        /\ ~parsed_cmd.diag
        /\ Len(parsed_cmd.commands) = 1
        /\ parsed_cmd.commands[1].args = ValuesAt(tokens, ArgWords(tokens, 1))
        /\ parsed_cmd.commands[1].output_file =
               LastTarget(tokens, 1, {"REDIRECT_OUT", "REDIRECT_OUT_APPEND"})
        /\ parsed_cmd.commands[1].input_file = LastTarget(tokens, 1, {"REDIRECT_IN"})
        /\ parsed_cmd.commands[1].error_file =
               LastTarget(tokens, 1, {"REDIRECT_ERR", "REDIRECT_ERR_APPEND"})

-----------------------------------------------------------------------------
(* Properties of Executor::execute on a pipeline (specification SpecPipe) *)

\* execute has returned from a pipeline of two or more stages, all forked.
PipelineRan == ppc = "returned" /\ nCmds >= 2 /\ Len(pids) = nCmds

\* C2: the status execute returns for a foreground pipeline of N >= 2 stages,
\* stored in last_exit_status, is the exit status of stage N, whatever the
\* earlier stages did.
C2_StatusOfLastStage ==
    PipelineRan => st.last_exit_status = StatusValue(child[nCmds].status)

\* C3: when execute has returned, by whatever path, the shell's descriptor
\* table is the one it was called with: no end of a pipe is left open and
\* nothing that was open before is closed.
C3_DescriptorsRestored == ppc = "returned" => fds = fdsBefore

\* C3 at work: the fork of the second stage failed with the pipe open around
\* a descriptor that was open before, and the table is back.
C3_ForkFailureSeen ==
    /\ ppc = "returned"
    /\ nCmds >= 2
    /\ Len(pids) = 1
    /\ 4 \in DOMAIN fdsBefore
    /\ fds = fdsBefore

\* execute has returned and no stage is left alive.
PipelineOver == ppc = "returned" /\ \A i \in 1 .. MaxStages : ~Live(child[i])

\* C4: a pipeline whose stages each end when their input is at end-of-file
\* completes: the shell's wait returns and every stage has ended.
C4_PipelineCompletes == <>PipelineOver

\* C4 at work: the longest pipeline ran, every stage ended at end-of-file
\* with status 0, and execute returned that status.
C4_LongestPipelineDone ==
    /\ PipelineOver
    /\ nCmds = MaxStages
    /\ Len(pids) = nCmds
    /\ \A i \in 1 .. nCmds : child[i].status = Exited(0)
    /\ st.last_exit_status = 0

\* Stage i is at its exec.
AtExec(i) == child[i].st = "ready"

HoldsPipe(f, k, e) == \E x \in DOMAIN f : f[x] = PipeEnd(k, e)

\* C12: in a stage where a pipe and a file redirection target the same
\* stream, the program's stream is the file, and the child holds no
\* descriptor of that pipe at its exec.
C12_FileWinsOverPipe ==
    \A i \in 1 .. MaxStages :
        AtExec(i) =>
            /\ (i > 1 /\ i \in in_file) =>
                   child[i].fds[0] = FileIn /\ ~HoldsPipe(child[i].fds, i - 1, "r")
            /\ (i < nCmds /\ i \in out_file) =>
                   child[i].fds[1] = FileOut /\ ~HoldsPipe(child[i].fds, i, "w")

\* C12 at work: a middle stage with "< file" and "> file" between two pipes
\* is at its exec.
C12_MiddleStageRedirected ==
    /\ nCmds >= 3
    /\ AtExec(2)
    /\ 2 \in in_file /\ 2 \in out_file
    /\ child[2].fds[0] = FileIn /\ child[2].fds[1] = FileOut

\* execute has returned because a pipe or a stage could not be made.
PipelineFailed == ppc = "returned" /\ Len(pids) < nCmds

\* C16: when pipe creation or fork fails for a stage, the pipeline does not
\* execute: no stage of it is left running or unreaped, and last_exit_status
\* is 1.
C16_FailedPipelineLeavesNothing ==
    PipelineFailed =>
        /\ \A i \in DOMAIN child : child[i] = NoChild \/ child[i].st = "reaped"
        /\ st.last_exit_status = 1

\* Every stage of the command or pipeline was forked and execute has returned.
ForegroundRan == ppc = "returned" /\ Len(pids) = nCmds

\* C32: for a foreground command or pipeline, in every interleaving of the
\* handler's waitpid(-1) loop with the foreground wait, the status stored in
\* last_exit_status is the last stage's, and it is stored when every stage
\* has been reaped.
C32_StatusDeterministic ==
    ForegroundRan =>
        /\ st.last_exit_status = StatusValue(child[nCmds].status)
        /\ \A i \in 1 .. nCmds : child[i].st = "reaped"

\* Every stage of a pipeline of two or more has been forked.
AllForked == nCmds >= 2 /\ Len(pids) = nCmds

\* C33: once all N stages of a pipeline are forked the parent holds no
\* descriptor of any end of the N-1 pipes, and a child at its exec holds of
\* the pipes only the read end of the pipe before it on stdin and the write
\* end of the pipe after it on stdout.
C33_NoPipeEndsLeft ==
    /\ AllForked => \A x \in DOMAIN fds : fds[x].pipe = 0
    /\ \A i \in 1 .. MaxStages :
           AtExec(i) =>
               \A x \in DOMAIN child[i].fds :
                   child[i].fds[x].pipe > 0 =>
                       \/ x = 0 /\ child[i].fds[x] = PipeEnd(i - 1, "r")
                       \/ x = 1 /\ child[i].fds[x] = PipeEnd(i, "w")

\* C33 at work: the longest pipeline is forked, the parent has not yet
\* reached cleanupPipes, and the middle stage is at its exec between its
\* two pipes.
C33_LastForkJustDone ==
    /\ nCmds = MaxStages
    /\ ppc = "fork"
    /\ Len(pids) = nCmds
    /\ AtExec(2)
    /\ child[2].fds[0] = PipeEnd(1, "r") /\ child[2].fds[1] = PipeEnd(2, "w")

\* A descriptor of the vector pipes is no longer open in the parent: it has
\* been passed to close.
ClosedAlready(fd) == fd \notin DOMAIN fds

\* The parent leaves the fork loop: cleanupPipes closes both descriptors of
\* every pair of pipes, after the last fork and after a failed one.
CleanupCalled == ppc = "fork" /\ ppc' # "fork"

\* C40: the parent closes each pipe descriptor it created once: no number
\* that cleanupPipes passes to close has been closed before, on any return
\* path of executePipeline.
C40_EachDescriptorClosedOnce ==
    [][CleanupCalled =>
          \A k \in 1 .. Len(pipes) :
              ~ClosedAlready(pipes[k][1]) /\ ~ClosedAlready(pipes[k][2])]_vars

-----------------------------------------------------------------------------
(* Properties of job control (specification SpecJobs) *)

AtPrompt == spc = "read"

\* Background child p was submitted and has ended.
BackgroundEnded(p) == subLines[p] >= 1 /\ procs[p].st \in {"zombie", "reaped"}

\* C1: every background pipeline, of one stage or more and whenever its child
\* ends, prints one submission line and later one completion line, in that
\* order, and job ids are not reused.  The completion line is due at the
\* prompt, to a job that is not taken to the foreground.
C1_SubmissionThenCompletion ==
    /\ [][StartBackgroundPipeline => \E p \in Pids : subLines'[p] = subLines[p] + 1]_vars
    /\ [](\A p \in Pids : subLines[p] <= 1 /\ doneLines[p] <= subLines[p])
    /\ [][\A j \in DOMAIN jobs' \ DOMAIN jobs : j = next_job_id /\ next_job_id' > j]_vars
    /\ ([]<>AtPrompt /\ [](spc # "fg_status"))
           => \A p \in Pids : BackgroundEnded(p) ~> (doneLines[p] = 1)

\* C5: with control at the prompt, the terminal's foreground process group
\* is the shell's own.
C5_TerminalIsTheShells == AtPrompt => tty_fg = ShellPgid

\* A step of the SIGCHLD handler: it alone takes the pending signal.
HandlerStep == sigchld /\ ~sigchld'

\* C9: the handler never reads or writes the job table while the main flow
\* is inside a change of it, and a child is collected only out of the zombie
\* state, so once.
C9_NoTornTableNoDoubleReap ==
    [][/\ HandlerStep => ~Mutating
       /\ \A p \in Pids : procs'[p].st = "reaped" /\ procs[p].st # "reaped"
                              => procs[p].st = "zombie"]_vars

\* The child the shell runs in the foreground is stopped.
ForegroundStopped == spc \in {"fgwait", "fgsleep"} /\ procs[wpid].st = "stopped"

StoppedJobOf(p) == \E j \in DOMAIN jobs : jobs[j].pgid = p /\ jobs[j].status = "STOPPED"

\* C10: when the foreground child is stopped by a stop signal, the shell
\* gets control back, and a job with status Stopped is in the table for it.
C10_StopReturnsControl ==
    \A p \in Pids : (ForegroundStopped /\ wpid = p) ~> (AtPrompt /\ StoppedJobOf(p))

\* bringToForeground returns to the REPL, having been given the terminal.
FgReturns == spc \in {"fg_kill", "fg_restore"} /\ spc' = "clean"

\* C11: when "fg id" on an existing job returns, the job's recorded state
\* tells what became of it, in every interleaving with the SIGCHLD handler:
\* STOPPED if the job is stopped, and not RUNNING (DONE, TERMINATED or gone
\* from the table) if it has ended.
C11_FgRecordsOutcome ==
    [][FgReturns =>
          LET p == jobs[curjob].pgid
          IN  /\ procs'[p].st = "stopped" =>
                     curjob \in DOMAIN jobs' /\ jobs'[curjob].status = "STOPPED"
              /\ procs'[p].st \in {"zombie", "reaped"} =>
                     curjob \notin DOMAIN jobs' \/ jobs'[curjob].status # "RUNNING"]_vars

\* C30: "bg j" on a job recorded as STOPPED sends SIGCONT to the job's process
\* group, records the job as RUNNING and goes back to the prompt without a
\* wait.
C30_BgResumesStoppedJob ==
    [][\A j \in JobIds :
          BgCommand(j) /\ j \in DOMAIN jobs /\ jobs[j].status = "STOPPED" =>
              /\ procs' = Continued(jobs[j].pgid)
              /\ jobs' = [jobs EXCEPT ![j].status = "RUNNING"]
              /\ spc' = "clean"]_vars

\* C31: the ids of the job table are positive and below next_job_id; a new
\* job takes the id next_job_id, which starts at 1 and grows by one with each
\* job added and at no other step, so that the ids are handed out as 1, 2,
\* 3, ... and no id comes back to the table once its job was removed.
C31_JobIdsDenseAndFresh ==
    /\ [](next_job_id >= 1 /\ DOMAIN jobs \subseteq 1 .. next_job_id - 1)
    /\ [][/\ DOMAIN jobs' \ DOMAIN jobs \subseteq {next_job_id}
          /\ next_job_id' = IF DOMAIN jobs' \subseteq DOMAIN jobs
                            THEN next_job_id ELSE next_job_id + 1]_vars

\* Job 1 was reported and removed, job 2 is in the table, the next id is 3.
C31_SecondJobAfterFirstRemoved ==
    /\ DOMAIN jobs = {2}
    /\ next_job_id = 3
    /\ \E p \in Pids : doneLines[p] = 1

\* C34: every child the shell has forked, for the foreground or the
\* background, is in a process group of its own job, led by the job's first
\* child (for a single command the child itself), and not in the shell's.
C34_ChildrenInOwnGroup ==
    \A p \in Pids :
        procs[p].st \in {"running", "stopped"} =>
            procs[p].pgid = p /\ procs[p].pgid # ShellPgid

\* Job j is DONE or TERMINATED in the table and the next pass of
\* printAndCleanCompletedJobs over it is still to come: the main flow is
\* neither waiting at the prompt nor in a pass whose iterator is beyond j.
Due(j) ==
    /\ j \in DOMAIN jobs
    /\ Finished(jobs[j])
    /\ spc # "read"
    /\ spc \in {"clean", "erase"} => jit <= j

\* C35: a job becomes DONE or TERMINATED only in a step in which waitpid
\* reports the end of its process; from then on it stays so until the pass
\* before the next prompt, which prints its completion line and removes it.
C35_FinishedIsReportedAtNextPrompt ==
    [][\A j \in JobIds :
          /\ (j \in DOMAIN jobs' /\ Finished(jobs'[j]) /\ ~(j \in DOMAIN jobs /\ Finished(jobs[j]))) =>
                 \E p \in Pids : /\ p = jobs'[j].pgid
                                  /\ Ended(p)
                                  /\ procs'[p].st = "reaped"
          /\ Due(j) =>
                 \/ j \in DOMAIN jobs' /\ Finished(jobs'[j]) /\ spc' # "read"
                 \/ j \notin DOMAIN jobs' /\ spc = "erase" /\ curjob = j
                       /\ doneLines[jobs[j].pgid] >= 1]_vars

\* C36: at the prompt every job recorded as RUNNING has a process that has
\* not been reaped, whenever its child ended, between fork and addJob
\* included.
C36_RunningJobHasProcess ==
    AtPrompt =>
        \A j \in DOMAIN jobs :
            jobs[j].status = "RUNNING" => GroupExists(jobs[j].pgid)

\* C37: DONE and TERMINATED are absorbing: no step takes a job that is DONE
\* or TERMINATED back to RUNNING or STOPPED while it is in the table.
C37_FinishedIsAbsorbing ==
    [][\A j \in DOMAIN jobs \cap DOMAIN jobs' :
          Finished(jobs[j]) => jobs'[j].status \notin {"RUNNING", "STOPPED"}]_vars

\* bringToForeground is past its tcsetpgrp(STDIN_FILENO, job.pgid).
FgHandedOff == spc \in {"fg_status", "fg_kill", "fg_wait", "fg_sleep", "fg_restore"}

\* C38: every return of fg after the terminal was handed to the job's group,
\* the failure to send SIGCONT and a failed wait included, leaves the
\* terminal's foreground group set to the shell's.
C38_FgGivesTerminalBack ==
    [][FgHandedOff /\ spc' = "clean" => tty_fg' = ShellPgid]_vars

-----------------------------------------------------------------------------
(* Properties of Shell::run over a session (specification SpecRun) *)

\* The words of the first stage of a line, as processInput parses it; none for
\* a blank line.
ArgsOf(input) ==
    IF FirstNonBlank(input, 1) = 0 THEN <<>>
    ELSE LET c == parse(tokenize(Trim(input))).commands
         IN  IF c = <<>> THEN <<>> ELSE c[1].args

\* processInput is about to run the built-in called name.
About(name) == rpc = "process" /\ ArgsOf(rinput) # <<>> /\ ArgsOf(rinput)[1] = name

\* The line gives a built-in an invalid argument: exit a code that is not a
\* number, fg or bg no job id, export a word without '='.
InvalidArgument ==
    LET a == ArgsOf(rinput)
    IN  \/ About(<<"e", "x", "i", "t">>) /\ Len(a) > 1 /\ Stoi(a[2]) < 0
        \/ (About(<<"f", "g">>) \/ About(<<"b", "g">>)) /\ Len(a) < 2
        \/ About(<<"e", "x", "p", "o", "r", "t">>) /\ Len(a) > 1 /\ FindEq(a[2], 1) = 0

\* C15: a built-in given an invalid argument leaves last_exit_status = 1 and
\* the shell running, back at its prompt.
C15_InvalidArgumentStatus ==
    [][InvalidArgument =>
          /\ st'.last_exit_status = 1
          /\ st'.running
          /\ rpc' = "prompt"]_vars

\* C17: exit n with a numeric n ends the run with status n; exit with a
\* non-numeric argument does not end it; exit alone ends the run with the
\* status held just before the command.
C17_ExitStatus ==
    [][About(<<"e", "x", "i", "t">>) =>
          LET a == ArgsOf(rinput)
          IN  IF Len(a) = 1
              THEN rpc' = "returned" /\ st'.last_exit_status = st.last_exit_status
              ELSE IF Stoi(a[2]) >= 0
              THEN rpc' = "returned" /\ st'.last_exit_status = Stoi(a[2])
              ELSE rpc' = "prompt" /\ st'.running]_vars

\* C18: once the line source is at end-of-input, run eventually returns.
C18_EofEndsRun == eof ~> (rpc = "returned")

\* C19: processing an empty or all-blank line changes nothing: the shell's
\* state and environment stay, no child is forked, and the REPL goes on.
C19_BlankLineIsNoOp ==
    [][rpc = "process" /\ FirstNonBlank(rinput, 1) = 0 =>
          /\ st' = st
          /\ penv' = penv
          /\ nforks' = nforks
          /\ rpc' = "prompt"]_vars

\* The k-th line of the session has been processed; the directory it left.
Processed(k) == k < Len(script) \/ (k = Len(script) /\ rpc # "process")

CwdAfter(k) == IF k < Len(script) THEN script[k + 1].cwd ELSE st.current_directory

\* Lines k, k+1, k+2 of the session were cd X; cd -; cd -, all processed.
ThereAndBack(k, X) ==
    /\ k + 2 <= Len(script)
    /\ Processed(k + 2)
    /\ script[k].input = <<"c", "d", " ">> \o X
    /\ script[k + 1].input = <<"c", "d", " ", "-">>
    /\ script[k + 2].input = <<"c", "d", " ", "-">>

CdTarget(a, state, env) ==
    IF Len(a) = 1 THEN state.home_directory
    ELSE IF a[2] = <<"-">> THEN env.OLDPWD
    ELSE a[2]

Contains(l, sub) ==
    \E i \in 0 .. (Len(l) - Len(sub)) : SubSeq(l, i + 1, i + Len(sub)) = sub

ExportLine(n, v) == <<"e", "x", "p", "o", "r", "t", " ">> \o n \o <<"=">> \o v

\* Line k of the session was export n=v, it has been processed, and no
\* export of n has been processed after it.
LatestExport(k, n, v) ==
    /\ Processed(k)
    /\ script[k].input = ExportLine(n, v)
    /\ \A j \in (k + 1) .. Len(script) :
           Processed(j) => \A w \in {<<"1">>, <<"2">>} : script[j].input # ExportLine(n, w)

\* C22: after export NAME=VALUE, NAME is bound to VALUE in the shell's map
\* and in the process environment, and export without an argument prints a
\* line containing NAME=VALUE, with the latest value of NAME.
C22_ExportBindsAndLists ==
    \A k \in 1 .. Len(script) : \A v \in {<<"1">>, <<"2">>} :
        LatestExport(k, <<"a">>, v) =>
            /\ <<"a">> \in DOMAIN st.environment /\ st.environment[<<"a">>] = v
            /\ <<"a">> \in DOMAIN penv.exported /\ penv.exported[<<"a">>] = v
            /\ \E l \in ExportPrints(st) : Contains(l, <<"a", "=">> \o v)
            /\ \A l \in ExportPrints(st) :
                   \A w \in {<<"1">>, <<"2">>} \ {v} : ~Contains(l, <<"a", "=">> \o w)

\* C39: processInput returns for every line: no exception leaves it, fg and
\* bg with an argument that is not a number included.
C39_ProcessInputReturns == rpc # "thrown"

-----------------------------------------------------------------------------
(* Properties of the child before exec (specification SpecChild) *)

\* The expansion the claims describe: one pass from left to right, each
\* $NAME or ${NAME} replaced where it stands, the values left as they are.
RECURSIVE ExpandInPlace(_, _, _)
ExpandInPlace(input, from, env) ==
    LET i == FindMatch(input, from)
    IN  IF i < 0 THEN SubSeq(input, from + 1, Len(input))
        ELSE SubSeq(input, from + 1, i) \o getVariableValue(env, MatchAt(input, i).name)
                 \o ExpandInPlace(input, i + MatchAt(input, i).len, env)

Expanded == kpc \in {"expanded", "resolved", "executing", "exited"}

\* C27: expand replaces each $NAME and ${NAME} of the argument where it
\* stands by the variable's value, the empty string for an unset one, and
\* leaves the text of the values alone.
C27_ExpandInPlace ==
    Expanded =>
        \A w \in ChildWords :
            kline = <<"p", " ">> \o w => kargs = <<<<"p">>, ExpandInPlace(w, 0, kenv)>>

\* C28: a word from single quotes is not expanded and reaches argv as it
\* was written; a bare or double-quoted word reaches argv as expand makes it.
C28_SingleQuotesKeepDollar ==
    Expanded =>
        \A w \in ChildWords :
            /\ kline = <<"p", " ">> \o Quoted(w, "'") => kargs = <<<<"p">>, w>>
            /\ kline \in {<<"p", " ">> \o w, <<"p", " ">> \o Quoted(w, "\"")} =>
                   kargs = <<<<"p">>, expand(w, kenv)>>

\* C29: a child whose command name is not found exits with 127, one whose
\* command is a file that is not executable with 126, and one whose exec
\* fails otherwise with 1.
C29_ChildExitStatus ==
    kpc \in {"executing", "exited"} =>
        /\ kfile = "missing" => kpc = "exited" /\ kstatus = 127
        /\ kfile = "not_executable" => kpc = "exited" /\ kstatus = 126
        /\ kfile = "exec_fails" => kpc = "exited" /\ kstatus = 1
        /\ kfile = "executable" => kpc = "executing"

=============================================================================
